---- MODULE Spec2Model ----
(***************************************************************************)
(* Stewart acid-base analyser (core.py, validation.py, constants.py).      *)
(*                                                                         *)
(* Numbers are fixed-point integers:                                       *)
(*   pH, Ca, Mg                      in 1/100  (7.40 -> 740, 1.25 -> 125)  *)
(*   every other quantity            in 1/10   (40 mmHg -> 400)            *)
(* Results the code rounds with round(x, 1) are integers in 1/10.          *)
(*                                                                         *)
(* A Python value that may be None / NaN is a tagged tuple:                *)
(*   None = << >>,  a number v = <<v>>,  float('nan') = <<0, 0>>.          *)
(***************************************************************************)
EXTENDS Integers, Sequences, FiniteSets, TLC

VARIABLES rec, mode, inp, bval, out, val, d, inp2, call, ret, pc

vars == <<rec, mode, inp, bval, out, val, d, inp2, call, ret, pc>>

(***************************************************************************)
(* constants.py                                                            *)
(***************************************************************************)
PH_MIN == 650
PH_MAX == 790
PH_NORMAL_LOW == 735
PH_NORMAL_HIGH == 745
PCO2_MIN == 50
PCO2_MAX == 2500
PCO2_NORMAL_LOW == 350
PCO2_NORMAL_HIGH == 450
PCO2_NORMAL == 400
HCO3_NORMAL == 240
HCO3_MISMATCH_THRESHOLD == 20
NA_MIN == 800
NA_MAX == 2200
K_MIN == 15
K_MAX == 100
CL_MIN == 500
CL_MAX == 2000
CA_MIN == 50
CA_MAX == 250
MG_MIN == 30
MG_MAX == 300
LACTATE_MIN == 0
LACTATE_MAX == 400
LACTATE_THRESHOLD == 20
ALBUMIN_MIN_GL == 50
ALBUMIN_MAX_GL == 600
PO4_MIN == 3
PO4_MAX == 40
BE_MIN == -300
BE_MAX == 300
BE_MISMATCH_THRESHOLD == 20
SID_NORMAL_SIMPLE == 380
SIG_THRESHOLD == 20
CLINICAL_SIGNIFICANCE_THRESHOLD == 20
WINTERS_HCO3_COEFFICIENT == 15
WINTERS_CONSTANT == 80
WINTERS_TOLERANCE == 20
ALKALOSIS_PCO2_COEFFICIENT == 7
ALKALOSIS_PCO2_CONSTANT == 210
ALKALOSIS_TOLERANCE == 20
RESP_ACIDOSIS_ACUTE_COEFFICIENT == 10
RESP_ACIDOSIS_CHRONIC_COEFFICIENT == 35
RESP_ALKALOSIS_ACUTE_COEFFICIENT == 20
RESP_ALKALOSIS_CHRONIC_COEFFICIENT == 50
COMPENSATION_TOLERANCE == 20
\* BE_HCO3_COEFFICIENT 1.1 in 1/10, BE_HCO3_NORMAL 24.4 in 1/10,
\* BE_PH_COEFFICIENT 14.83 in 1/100, BE_PH_NORMAL 7.4 in 1/100
BE_HCO3_COEFFICIENT == 11
BE_HCO3_NORMAL == 244
BE_PH_COEFFICIENT == 1483
BE_PH_NORMAL == 740
\* Figge coefficients in 1/1000
ALBUMIN_PH_COEFFICIENT == 123
ALBUMIN_CONSTANT == 631
PO4_PH_COEFFICIENT == 309
PO4_CONSTANT == 469
ATOT_ALBUMIN_COEFFICIENT == 123
ATOT_PO4_COEFFICIENT == 309

(***************************************************************************)
(* Python values                                                           *)
(***************************************************************************)
None == << >>
NaN == <<0, 0>>
Num(v) == <<v>>
IsNone(x) == x = None
IsNaN(x) == x = NaN
IsNum(x) == Len(x) = 1
V(x) == x[1]

Abs(n) == IF n < 0 THEN -n ELSE n

\* x in list
Has(list, x) == \E n \in DOMAIN list : list[n] = x

\* round(n / q) for q > 0, ties to even (Python's round on an exact tie).
\* The source rounds binary doubles: where the decimal value is an exact tie
\* the double nearest to it may lie on either side, so on those inputs the
\* source can differ from this operator by one unit in the last place.
RoundDiv(n, q) ==
    LET fl == n \div q
        r2 == 2 * (n - fl * q)
    IN  IF r2 < q THEN fl
        ELSE IF r2 > q THEN fl + 1
        ELSE IF fl % 2 = 0 THEN fl ELSE fl + 1

\* lo <= x <= hi on a float that may be NaN (every comparison with NaN is false)
Between(lo, x, hi) == IsNum(x) /\ lo <= V(x) /\ V(x) <= hi

(***************************************************************************)
(* core.py: validate_input                                                 *)
(***************************************************************************)
\* one optional check: "inp.f is not None and not (lo <= inp.f <= hi)"
OptViolates(x, lo, hi) == ~IsNone(x) /\ ~Between(lo, x, hi)

\* a validation that checks the four required fields only
ValidationErrorsRequiredOnly(i) ==
    (IF ~Between(PH_MIN, i.ph, PH_MAX) THEN <<"ph_out_of_range">> ELSE << >>)
    \o (IF ~Between(PCO2_MIN, i.pco2, PCO2_MAX) THEN <<"pco2_out_of_range">> ELSE << >>)
    \o (IF ~Between(NA_MIN, i.na, NA_MAX) THEN <<"na_out_of_range">> ELSE << >>)
    \o (IF ~Between(CL_MIN, i.cl, CL_MAX) THEN <<"cl_out_of_range">> ELSE << >>)

\* a validation that reports the first violated field only
ValidationErrorsFirstOnly(i) ==
    IF ~Between(PH_MIN, i.ph, PH_MAX) THEN <<"ph_out_of_range">>
    ELSE IF ~Between(PCO2_MIN, i.pco2, PCO2_MAX) THEN <<"pco2_out_of_range">>
    ELSE IF ~Between(NA_MIN, i.na, NA_MAX) THEN <<"na_out_of_range">>
    ELSE IF ~Between(CL_MIN, i.cl, CL_MAX) THEN <<"cl_out_of_range">>
    ELSE IF OptViolates(i.k, K_MIN, K_MAX) THEN <<"k_out_of_range">>
    ELSE IF OptViolates(i.ca, CA_MIN, CA_MAX) THEN <<"ca_out_of_range">>
    ELSE IF OptViolates(i.mg, MG_MIN, MG_MAX) THEN <<"mg_out_of_range">>
    ELSE IF OptViolates(i.lactate, LACTATE_MIN, LACTATE_MAX) THEN <<"lactate_out_of_range">>
    ELSE IF OptViolates(i.albumin_gl, ALBUMIN_MIN_GL, ALBUMIN_MAX_GL) THEN <<"albumin_gl_out_of_range">>
    ELSE IF OptViolates(i.po4, PO4_MIN, PO4_MAX) THEN <<"po4_out_of_range">>
    ELSE << >>

ValidationErrors(i) ==
    (IF ~Between(PH_MIN, i.ph, PH_MAX) THEN <<"ph_out_of_range">> ELSE << >>)
    \o (IF ~Between(PCO2_MIN, i.pco2, PCO2_MAX) THEN <<"pco2_out_of_range">> ELSE << >>)
    \o (IF ~Between(NA_MIN, i.na, NA_MAX) THEN <<"na_out_of_range">> ELSE << >>)
    \o (IF ~Between(CL_MIN, i.cl, CL_MAX) THEN <<"cl_out_of_range">> ELSE << >>)
    \o (IF OptViolates(i.k, K_MIN, K_MAX) THEN <<"k_out_of_range">> ELSE << >>)
    \o (IF OptViolates(i.ca, CA_MIN, CA_MAX) THEN <<"ca_out_of_range">> ELSE << >>)
    \o (IF OptViolates(i.mg, MG_MIN, MG_MAX) THEN <<"mg_out_of_range">> ELSE << >>)
    \o (IF OptViolates(i.lactate, LACTATE_MIN, LACTATE_MAX) THEN <<"lactate_out_of_range">> ELSE << >>)
    \o (IF OptViolates(i.albumin_gl, ALBUMIN_MIN_GL, ALBUMIN_MAX_GL) THEN <<"albumin_gl_out_of_range">> ELSE << >>)
    \o (IF OptViolates(i.po4, PO4_MIN, PO4_MAX) THEN <<"po4_out_of_range">> ELSE << >>)

validate_input(i) ==
    LET errors == ValidationErrors(i)
    IN  [is_valid |-> Len(errors) = 0, errors |-> errors, warnings |-> << >>]

(***************************************************************************)
(* core.py: derived values                                                 *)
(***************************************************************************)
\* HH_SOLUBILITY * 10 ** (ph - HH_CONSTANT), scaled by 10^7, for the pH values
\* of the model's inputs (pH in steps of 0.05 over PH_MIN..PH_MAX, and 7.33)
HHFactor(ph) ==
    (650 :> 753566 @@ 655 :> 845515 @@ 660 :> 948683 @@ 665 :> 1064440 @@
     670 :> 1194322 @@ 675 :> 1340051 @@ 680 :> 1503562 @@ 685 :> 1687024 @@
     690 :> 1892872 @@ 695 :> 2123837 @@ 700 :> 2382985 @@ 705 :> 2673753 @@
     710 :> 3000000 @@ 715 :> 3366055 @@ 720 :> 3776776 @@ 725 :> 4237613 @@
     730 :> 4754680 @@ 733 :> 5094731 @@ 735 :> 5334838 @@ 740 :> 5985787 @@ 745 :> 6716163 @@
     750 :> 7535659 @@ 755 :> 8455149 @@ 760 :> 9486833 @@ 765 :> 10644402 @@
     770 :> 11943215 @@ 775 :> 13400508 @@ 780 :> 15035617 @@ 785 :> 16870240 @@
     790 :> 18928720)[ph]

\* round(HH_SOLUBILITY * pco2 * 10 ** (ph - HH_CONSTANT), 1); the product
\* pco2 * HHFactor / 10^7 is divided in two steps to stay within 32 bits
calculate_hco3(ph, pco2) ==
    LET f == HHFactor(ph)
        t == pco2 * (f % 10000)
        u == pco2 * (f \div 10000) + (t \div 10000)
        fl == u \div 1000
        r == (u % 1000) * 10000 + (t % 10000)
    IN  IF 2 * r < 10000000 THEN fl
        ELSE IF 2 * r > 10000000 THEN fl + 1
        ELSE IF fl % 2 = 0 THEN fl ELSE fl + 1

\* round(BE_HCO3_COEFFICIENT * (hco3 - BE_HCO3_NORMAL)
\*       + BE_PH_COEFFICIENT * (ph - BE_PH_NORMAL), 1)
calculate_be(ph, hco3) ==
    RoundDiv(100 * BE_HCO3_COEFFICIENT * (hco3 - BE_HCO3_NORMAL)
             + BE_PH_COEFFICIENT * (ph - BE_PH_NORMAL), 1000)

\* (is_consistent, diff)
check_hco3_consistency(hco3_manual, hco3_calc) ==
    LET diff == Abs(hco3_manual - hco3_calc)
    IN  <<diff <= HCO3_MISMATCH_THRESHOLD, diff>>

check_be_consistency(be_manual, be_calc) ==
    LET diff == Abs(be_manual - be_calc)
    IN  <<diff <= BE_MISMATCH_THRESHOLD, diff>>

(***************************************************************************)
(* core.py: SID layers                                                     *)
(***************************************************************************)
calculate_sid_simple(na, cl) == na - cl

\* a SID_basic that assumes a lactate of 1.0 mmol/L when none is measured
calculate_sid_basic_assuming(na, cl, lactate) ==
    IF IsNone(lactate) THEN <<Num(na - cl - 10), "assumed">>
    ELSE <<Num(na - cl - V(lactate)), "measured">>

\* (sid_basic, status)
calculate_sid_basic(na, cl, lactate) ==
    IF IsNone(lactate) THEN <<None, "lactate_missing">>
    ELSE <<Num(na - cl - V(lactate)), "measured">>

SidFullMissing(k, ca, mg, lactate) ==
    (IF IsNone(k) THEN <<"K+">> ELSE << >>)
    \o (IF IsNone(ca) THEN <<"Ca2+">> ELSE << >>)
    \o (IF IsNone(mg) THEN <<"Mg2+">> ELSE << >>)
    \o (IF IsNone(lactate) THEN <<"Laktat">> ELSE << >>)

\* a status that still calls three missing parameters "partial"
SidFullStatusLenient(missing) ==
    IF Len(missing) = 0 THEN "complete"
    ELSE IF Len(missing) <= 3 THEN "partial" ELSE "incomplete"

SidFullStatus(missing) ==
    IF Len(missing) = 0 THEN "complete"
    ELSE IF Len(missing) <= 2 THEN "partial" ELSE "incomplete"

\* (sid_full, status, missing); na, k, cl, lactate in 1/10, ca and mg in 1/100
calculate_sid_full(na, cl, k, ca, mg, lactate) ==
    LET missing == SidFullMissing(k, ca, mg, lactate)
        cations10 == na + (IF IsNone(k) THEN 0 ELSE V(k))
        cations100 == (IF IsNone(ca) THEN 0 ELSE V(ca)) + (IF IsNone(mg) THEN 0 ELSE V(mg))
        anions == cl + (IF IsNone(lactate) THEN 0 ELSE V(lactate))
    IN  <<Num(RoundDiv(10 * (cations10 - anions) + cations100, 10)),
          SidFullStatus(missing), missing>>

calculate_all_sids(i) ==
    LET basic == calculate_sid_basic(V(i.na), V(i.cl), i.lactate)
        full == calculate_sid_full(V(i.na), V(i.cl), i.k, i.ca, i.mg, i.lactate)
    IN  [sid_simple |-> calculate_sid_simple(V(i.na), V(i.cl)),
         sid_simple_status |-> "measured",
         sid_basic |-> basic[1], sid_basic_status |-> basic[2],
         sid_full |-> full[1], sid_full_status |-> full[2],
         sid_full_missing |-> full[3]]

\* (sid_effective, missing)
calculate_sid_effective(ph, hco3, albumin_gl, po4) ==
    LET alb == IF IsNone(albumin_gl) THEN 0
               ELSE V(albumin_gl) * (ALBUMIN_PH_COEFFICIENT * ph - 100 * ALBUMIN_CONSTANT)
        pho == IF IsNone(po4) THEN 0
               ELSE V(po4) * (PO4_PH_COEFFICIENT * ph - 100 * PO4_CONSTANT)
        missing == (IF IsNone(albumin_gl) THEN <<"Albumin">> ELSE << >>)
                   \o (IF IsNone(po4) THEN <<"Fosfat">> ELSE << >>)
    IN  <<RoundDiv(100000 * hco3 + alb + pho, 100000), missing>>

calculate_sig(sid_apparent, sid_effective) == sid_apparent - sid_effective

\* a reliability that looks at Ca / Mg before albumin
assess_sig_reliability_ca_mg_first(lactate, ca, mg, albumin_gl) ==
    IF IsNone(lactate) THEN <<"underestimated", <<"sig_no_lactate">> >>
    ELSE IF IsNone(ca) \/ IsNone(mg) THEN <<"approximate", <<"sig_approximate">> >>
    ELSE IF IsNone(albumin_gl) THEN <<"unreliable", <<"sig_unreliable">> >>
    ELSE <<"reliable", << >> >>

\* (reliability, warnings)
assess_sig_reliability(lactate, ca, mg, albumin_gl) ==
    IF IsNone(lactate) THEN <<"underestimated", <<"sig_no_lactate">> >>
    ELSE IF IsNone(albumin_gl) THEN <<"unreliable", <<"sig_unreliable">> >>
    ELSE IF IsNone(ca) \/ IsNone(mg) THEN <<"approximate", <<"sig_approximate">> >>
    ELSE <<"reliable", << >> >>

\* Atot in 1/10; None without albumin
calculate_atot(albumin_gl, po4) ==
    IF IsNone(albumin_gl) THEN None
    ELSE Num(RoundDiv(ATOT_ALBUMIN_COEFFICIENT * V(albumin_gl)
                      + (IF IsNone(po4) THEN 0 ELSE ATOT_PO4_COEFFICIENT * V(po4)), 1000))

(***************************************************************************)
(* core.py: component effects, anion gap                                   *)
(***************************************************************************)
calculate_sid_effect(sid_simple) == sid_simple - SID_NORMAL_SIMPLE

\* round(2.5 * (4.2 - albumin_gdl), 1); albumin_gdl in 1/100 g/dL
calculate_albumin_effect(albumin_gdl) == RoundDiv(25 * (420 - albumin_gdl), 100)

\* a lactate effect with the sign of an alkalinising component
calculate_lactate_effect_unsigned(lactate) == lactate

calculate_lactate_effect(lactate) == -lactate

\* round(-0.1 * (pco2 - PCO2_NORMAL), 1)
calculate_respiratory_effect(pco2) == RoundDiv(-(pco2 - PCO2_NORMAL), 10)

\* a residual that leaves the lactate effect inside
calculate_residual_effect_with_lactate(be, sid_effect, albumin_effect, lactate_effect) ==
    be - sid_effect - (IF IsNone(albumin_effect) THEN 0 ELSE V(albumin_effect))

calculate_residual_effect(be, sid_effect, albumin_effect, lactate_effect) ==
    be - sid_effect
       - (IF IsNone(albumin_effect) THEN 0 ELSE V(albumin_effect))
       - (IF IsNone(lactate_effect) THEN 0 ELSE V(lactate_effect))

\* net_metabolic of generate_contribution_breakdown (lines 612-619, 635)
NetMetabolic(sid_effect, albumin_effect, lactate_effect, residual_effect) ==
    sid_effect
       + (IF IsNone(albumin_effect) THEN 0 ELSE V(albumin_effect))
       + (IF IsNone(lactate_effect) THEN 0 ELSE V(lactate_effect))
       + (IF IsNone(residual_effect) THEN 0 ELSE V(residual_effect))

calculate_anion_gap(na, cl, hco3) == na - (cl + hco3)

\* (a decimal tie arises at albumin 5 g/L, where the source's double rounds
\* up and RoundDiv rounds to even; no property below reads this field there)
calculate_corrected_anion_gap(ag, albumin_gdl) ==
    RoundDiv(100 * ag + 25 * (420 - albumin_gdl), 100)

(***************************************************************************)
(* core.py: compensation                                                   *)
(***************************************************************************)
\* round(WINTERS_HCO3_COEFFICIENT * hco3 + WINTERS_CONSTANT, 0), in 1/10
calculate_expected_pco2_metabolic_acidosis(hco3) ==
    10 * RoundDiv(WINTERS_HCO3_COEFFICIENT * hco3 + 10 * WINTERS_CONSTANT, 100)

\* round(ALKALOSIS_PCO2_COEFFICIENT * hco3 + ALKALOSIS_PCO2_CONSTANT, 0), in 1/10
calculate_expected_pco2_metabolic_alkalosis(hco3) ==
    10 * RoundDiv(ALKALOSIS_PCO2_COEFFICIENT * hco3 + 10 * ALKALOSIS_PCO2_CONSTANT, 100)

\* round(HCO3_NORMAL + coef * (pco2 - PCO2_NORMAL), 1); coef in 1/100
calculate_expected_hco3_respiratory_acidosis(pco2, is_chronic) ==
    LET delta_pco2 == pco2 - PCO2_NORMAL
        coef == IF is_chronic THEN RESP_ACIDOSIS_CHRONIC_COEFFICIENT
                ELSE RESP_ACIDOSIS_ACUTE_COEFFICIENT
    IN  RoundDiv(100 * HCO3_NORMAL + coef * delta_pco2, 100)

\* round(HCO3_NORMAL - coef * (PCO2_NORMAL - pco2), 1); with the chronic
\* coefficient odd tenths of pCO2 give decimal ties, the expected value may
\* then differ from the source's by 0.1, the status derived from it does not
calculate_expected_hco3_respiratory_alkalosis(pco2, is_chronic) ==
    LET delta_pco2 == PCO2_NORMAL - pco2
        coef == IF is_chronic THEN RESP_ALKALOSIS_CHRONIC_COEFFICIENT
                ELSE RESP_ALKALOSIS_ACUTE_COEFFICIENT
    IN  RoundDiv(100 * HCO3_NORMAL - coef * delta_pco2, 100)

Comp(epco2, ehco3, status, diff) ==
    [expected_pco2 |-> epco2, expected_hco3 |-> ehco3,
     compensation_status |-> status, observed_expected_diff |-> diff]

\* the branch of assess_compensation that handles a metabolic disorder
\* (the two branches differ in the formula and the tolerance only)
MetabolicCompensation(pco2, expected_pco2, tolerance) ==
    LET diff == pco2 - expected_pco2
    IN  IF Abs(diff) <= tolerance
        THEN Comp(Num(expected_pco2), None, "Uygun respiratuvar kompanzasyon", Num(diff))
        ELSE IF diff < -tolerance
        THEN Comp(Num(expected_pco2), None, "Ek respiratuvar alkaloz", Num(diff))
        ELSE Comp(Num(expected_pco2), None, "Ek respiratuvar asidoz", Num(diff))

\* a respiratory-acidosis branch that reports the chronic expected value
\* without the difference to it
RespiratoryAcidosisCompensationNoDelta(pco2, hco3) ==
    LET exp_acute == calculate_expected_hco3_respiratory_acidosis(pco2, FALSE)
        exp_chronic == calculate_expected_hco3_respiratory_acidosis(pco2, TRUE)
    IN  IF hco3 <= exp_acute + COMPENSATION_TOLERANCE
        THEN Comp(None, Num(exp_acute), "Akut respiratuvar asidoz", Num(hco3 - exp_acute))
        ELSE IF hco3 >= exp_chronic - COMPENSATION_TOLERANCE
        THEN Comp(None, Num(exp_chronic), "Kronik respiratuvar asidoz", None)
        ELSE Comp(None, Num(exp_acute), "Subakut respiratuvar asidoz", None)

RespiratoryAcidosisCompensation(pco2, hco3) ==
    LET exp_acute == calculate_expected_hco3_respiratory_acidosis(pco2, FALSE)
        exp_chronic == calculate_expected_hco3_respiratory_acidosis(pco2, TRUE)
    IN  IF hco3 <= exp_acute + COMPENSATION_TOLERANCE
        THEN Comp(None, Num(exp_acute), "Akut respiratuvar asidoz", Num(hco3 - exp_acute))
        ELSE IF hco3 >= exp_chronic - COMPENSATION_TOLERANCE
        THEN Comp(None, Num(exp_chronic), "Kronik respiratuvar asidoz", Num(hco3 - exp_chronic))
        ELSE Comp(None, Num(exp_acute), "Subakut respiratuvar asidoz", None)

RespiratoryAlkalosisCompensation(pco2, hco3) ==
    LET exp_acute == calculate_expected_hco3_respiratory_alkalosis(pco2, FALSE)
        exp_chronic == calculate_expected_hco3_respiratory_alkalosis(pco2, TRUE)
    IN  IF hco3 >= exp_acute - COMPENSATION_TOLERANCE
        THEN Comp(None, Num(exp_acute), "Akut respiratuvar alkaloz", Num(hco3 - exp_acute))
        ELSE IF hco3 <= exp_chronic + COMPENSATION_TOLERANCE
        THEN Comp(None, Num(exp_chronic), "Kronik respiratuvar alkaloz", Num(hco3 - exp_chronic))
        ELSE Comp(None, Num(exp_acute), "Subakut respiratuvar alkaloz", None)

\* a procedure that tries the respiratory branches before the metabolic ones
assess_compensation_respiratory_first(ph, pco2, hco3, be) ==
    LET is_acidemia == ph < PH_NORMAL_LOW
        is_alkalemia == ph > PH_NORMAL_HIGH
        is_pco2_high == pco2 > PCO2_NORMAL_HIGH
        is_pco2_low == pco2 < PCO2_NORMAL_LOW
        is_met_acidosis == be < -CLINICAL_SIGNIFICANCE_THRESHOLD
        is_met_alkalosis == be > CLINICAL_SIGNIFICANCE_THRESHOLD
    IN  IF is_pco2_high /\ is_acidemia
        THEN RespiratoryAcidosisCompensation(pco2, hco3)
        ELSE IF is_pco2_low /\ is_alkalemia
        THEN RespiratoryAlkalosisCompensation(pco2, hco3)
        ELSE IF is_met_acidosis /\ (is_acidemia \/ ph <= PH_NORMAL_HIGH)
        THEN MetabolicCompensation(pco2,
                 calculate_expected_pco2_metabolic_acidosis(hco3), WINTERS_TOLERANCE)
        ELSE IF is_met_alkalosis /\ (is_alkalemia \/ ph >= PH_NORMAL_LOW)
        THEN MetabolicCompensation(pco2,
                 calculate_expected_pco2_metabolic_alkalosis(hco3), ALKALOSIS_TOLERANCE)
        ELSE Comp(None, None, "Belirgin primer bozukluk yok", None)

assess_compensation(ph, pco2, hco3, be) ==
    LET is_acidemia == ph < PH_NORMAL_LOW
        is_alkalemia == ph > PH_NORMAL_HIGH
        is_pco2_high == pco2 > PCO2_NORMAL_HIGH
        is_pco2_low == pco2 < PCO2_NORMAL_LOW
        is_met_acidosis == be < -CLINICAL_SIGNIFICANCE_THRESHOLD
        is_met_alkalosis == be > CLINICAL_SIGNIFICANCE_THRESHOLD
    IN  IF is_met_acidosis /\ (is_acidemia \/ ph <= PH_NORMAL_HIGH)
        THEN MetabolicCompensation(pco2,
                 calculate_expected_pco2_metabolic_acidosis(hco3), WINTERS_TOLERANCE)
        ELSE IF is_met_alkalosis /\ (is_alkalemia \/ ph >= PH_NORMAL_LOW)
        THEN MetabolicCompensation(pco2,
                 calculate_expected_pco2_metabolic_alkalosis(hco3), ALKALOSIS_TOLERANCE)
        ELSE IF is_pco2_high /\ is_acidemia
        THEN RespiratoryAcidosisCompensation(pco2, hco3)
        ELSE IF is_pco2_low /\ is_alkalemia
        THEN RespiratoryAlkalosisCompensation(pco2, hco3)
        ELSE Comp(None, None, "Belirgin primer bozukluk yok", None)

(***************************************************************************)
(* core.py: dominant disorder                                              *)
(***************************************************************************)
\* components in which a SIG above its threshold names hagma first
DisorderComponentsSigFirst(pco2, sid_effect, albumin_effect, lactate, residual_effect, sig) ==
    LET by_sig == ~IsNone(sig) /\ V(sig) > SIG_THRESHOLD
        by_residual == ~IsNone(residual_effect)
                       /\ V(residual_effect) < -CLINICAL_SIGNIFICANCE_THRESHOLD
    IN  (IF by_sig THEN <<"hagma">> ELSE << >>)
        \o (IF pco2 > PCO2_NORMAL_HIGH THEN <<"respiratory_acidosis">> ELSE << >>)
        \o (IF pco2 < PCO2_NORMAL_LOW THEN <<"respiratory_alkalosis">> ELSE << >>)
        \o (IF sid_effect < -CLINICAL_SIGNIFICANCE_THRESHOLD
            THEN <<"hyperchloremic_acidosis">> ELSE << >>)
        \o (IF sid_effect > CLINICAL_SIGNIFICANCE_THRESHOLD
            THEN <<"hypochloremic_alkalosis">> ELSE << >>)
        \o (IF ~IsNone(albumin_effect)
               /\ V(albumin_effect) > CLINICAL_SIGNIFICANCE_THRESHOLD
            THEN <<"hypoalbuminemic_alkalosis">> ELSE << >>)
        \o (IF ~IsNone(lactate) /\ V(lactate) > LACTATE_THRESHOLD
            THEN <<"lactic_acidosis">> ELSE << >>)
        \o (IF by_residual /\ ~by_sig THEN <<"hagma">> ELSE << >>)

DisorderComponents(pco2, sid_effect, albumin_effect, lactate, residual_effect, sig) ==
    LET is_resp_acidosis == pco2 > PCO2_NORMAL_HIGH
        is_resp_alkalosis == pco2 < PCO2_NORMAL_LOW
        has_sid_acidosis == sid_effect < -CLINICAL_SIGNIFICANCE_THRESHOLD
        has_sid_alkalosis == sid_effect > CLINICAL_SIGNIFICANCE_THRESHOLD
        has_alb_alkalosis == ~IsNone(albumin_effect)
                             /\ V(albumin_effect) > CLINICAL_SIGNIFICANCE_THRESHOLD
        has_lactic_acidosis == ~IsNone(lactate) /\ V(lactate) > LACTATE_THRESHOLD
        has_unmeasured ==
            \/ (~IsNone(residual_effect)
                /\ V(residual_effect) < -CLINICAL_SIGNIFICANCE_THRESHOLD)
            \/ (~IsNone(sig) /\ V(sig) > SIG_THRESHOLD)
    IN  (IF is_resp_acidosis THEN <<"respiratory_acidosis">> ELSE << >>)
        \o (IF is_resp_alkalosis THEN <<"respiratory_alkalosis">> ELSE << >>)
        \o (IF has_sid_acidosis THEN <<"hyperchloremic_acidosis">> ELSE << >>)
        \o (IF has_sid_alkalosis THEN <<"hypochloremic_alkalosis">> ELSE << >>)
        \o (IF has_alb_alkalosis THEN <<"hypoalbuminemic_alkalosis">> ELSE << >>)
        \o (IF has_lactic_acidosis THEN <<"lactic_acidosis">> ELSE << >>)
        \o (IF has_unmeasured THEN <<"hagma">> ELSE << >>)

\* a classification that names the first detected component whatever their number
determine_dominant_disorder_first(ph, pco2, be, sid_effect, albumin_effect, lactate, residual_effect, sig) ==
    LET components == DisorderComponents(pco2, sid_effect, albumin_effect, lactate,
                                         residual_effect, sig)
    IN  IF Len(components) = 0 THEN <<"normal", << >> >>
        ELSE <<components[1], components>>

\* (dominant, components); ph and be are parameters the code reads without effect
determine_dominant_disorder(ph, pco2, be, sid_effect, albumin_effect, lactate, residual_effect, sig) ==
    LET components == DisorderComponents(pco2, sid_effect, albumin_effect, lactate,
                                         residual_effect, sig)
    IN  IF Len(components) = 0 THEN <<"normal", << >> >>
        ELSE IF Len(components) = 1 THEN <<components[1], components>>
        ELSE IF Len(components) = 2 THEN <<"mixed_disorder", components>>
        ELSE <<"triple_disorder", components>>

(***************************************************************************)
(* core.py: contribution-based mechanism analysis.  Percentages are in     *)
(* 1/10 %.  Names and descriptions are the source's strings in ASCII.      *)
(***************************************************************************)
\* round(abs(effect) / abs(total_effect) * 100, 1)
\* (on a decimal tie such as 43.75 the source's double may round the other
\* way; levels and order are the same either way, no tie lies on a threshold)
calculate_contribution_percent(effect, total_effect) ==
    IF Abs(total_effect) < 1 THEN 0
    ELSE RoundDiv(1000 * Abs(effect), Abs(total_effect))

\* "laktat" in mechanism_name.lower()
IsLactateName(mechanism_name) == mechanism_name = "Laktat aracili etki"

\* a classification that treats a share above 100 % as no contribution
classify_contribution_level_capped(percent, mechanism_name) ==
    IF percent > 1000 THEN "minimal"
    ELSE IF percent >= 500 THEN "dominant"
    ELSE IF percent >= 250 THEN "significant"
    ELSE IF percent >= 100 \/ (IsLactateName(mechanism_name) /\ percent > 0)
    THEN "contributing"
    ELSE "minimal"

classify_contribution_level(percent, mechanism_name) ==
    IF IsLactateName(mechanism_name)
    THEN IF percent >= 500 THEN "dominant"
         ELSE IF percent >= 250 THEN "significant"
         ELSE IF percent > 0 THEN "contributing"
         ELSE "minimal"
    ELSE IF percent >= 500 THEN "dominant"
         ELSE IF percent >= 250 THEN "significant"
         ELSE IF percent >= 100 THEN "contributing"
         ELSE "minimal"

RECURSIVE TotalAcidosis(_, _)
\* sum(abs(m.effect) for m in mechanism_inputs[n:] if m.direction == "acidosis")
TotalAcidosis(ms, n) ==
    IF n > Len(ms) THEN 0
    ELSE (IF ms[n].direction = "acidosis" THEN Abs(ms[n].effect) ELSE 0)
         + TotalAcidosis(ms, n + 1)

RECURSIVE TotalAlkalosis(_, _)
\* sum(m.effect for m in mechanism_inputs[n:] if m.direction == "alkalosis")
TotalAlkalosis(ms, n) ==
    IF n > Len(ms) THEN 0
    ELSE (IF ms[n].direction = "alkalosis" THEN ms[n].effect ELSE 0)
         + TotalAlkalosis(ms, n + 1)

Max(a, b) == IF a >= b THEN a ELSE b

\* a total_reference that is never below the materiality threshold
TotalReferenceFloored(be, total_acidosis, total_alkalosis) ==
    Max(CLINICAL_SIGNIFICANCE_THRESHOLD, Max(Max(Abs(be), total_acidosis), total_alkalosis))

\* total_reference of lines 697-702
TotalReference(be, total_acidosis, total_alkalosis) ==
    IF be < -CLINICAL_SIGNIFICANCE_THRESHOLD THEN Max(Abs(be), total_acidosis)
    ELSE IF be > CLINICAL_SIGNIFICANCE_THRESHOLD THEN Max(Abs(be), total_alkalosis)
    ELSE Max(Max(Abs(be), total_acidosis), total_alkalosis)

RECURSIVE MechanismContributions(_, _, _)
\* the loop of lines 705-721 over mechanism_inputs[n:]
MechanismContributions(ms, total_reference, n) ==
    IF n > Len(ms) THEN << >>
    ELSE LET m == ms[n]
             percent == calculate_contribution_percent(m.effect, total_reference)
             rest == MechanismContributions(ms, total_reference, n + 1)
         IN  IF Abs(m.effect) < CLINICAL_SIGNIFICANCE_THRESHOLD THEN rest
             ELSE << [name |-> m.name, identifier |-> m.identifier,
                      effect_meq |-> m.effect, contribution_percent |-> percent,
                      level |-> classify_contribution_level(percent, m.name),
                      direction |-> m.direction, description |-> m.description] >>
                  \o rest

RECURSIVE InsertByPercent(_, _)
\* x placed behind every element whose percent is at least its own
InsertByPercent(x, sorted) ==
    IF Len(sorted) = 0 THEN <<x>>
    ELSE IF Head(sorted).contribution_percent >= x.contribution_percent
    THEN <<Head(sorted)>> \o InsertByPercent(x, Tail(sorted))
    ELSE <<x>> \o sorted

RECURSIVE SortByPercent(_, _)
\* list.sort(key=contribution_percent, reverse=True): stable, descending
SortByPercent(mcs, n) ==
    IF n = 0 THEN << >>
    ELSE InsertByPercent(mcs[n], SortByPercent(mcs, n - 1))

RECURSIVE WithLevel(_, _)
\* the elements of the list that carry the level, in the list's order
WithLevel(mcs, level) ==
    IF Len(mcs) = 0 THEN << >>
    ELSE (IF Head(mcs).level = level THEN <<Head(mcs)>> ELSE << >>)
         \o WithLevel(Tail(mcs), level)

RECURSIVE FirstWhere(_, _, _)
\* next((m for m in mcs if m[field] == value), None)
FirstWhere(mcs, field, value) ==
    IF Len(mcs) = 0 THEN None
    ELSE IF Head(mcs)[field] = value THEN Num(Head(mcs))
    ELSE FirstWhere(Tail(mcs), field, value)

\* the loop of lines 729-738: the first mechanism of level "dominant", or
\* else the first mechanism of the sorted list
InitialDominant(mcs) ==
    LET first == FirstWhere(mcs, "level", "dominant")
    IN  IF ~IsNone(first) THEN first
        ELSE IF Len(mcs) > 0 THEN Num(mcs[1])
        ELSE None

\* pattern_flags of lines 740-761
PatternFlags(mcs, dominant, sig, total_acidosis, total_alkalosis) ==
    LET from_dominant ==
            IF IsNone(dominant) THEN << >>
            ELSE (IF V(dominant).identifier = "unmeasured"
                  THEN <<"unmeasured_anion">> ELSE << >>)
                 \o (IF V(dominant).identifier = "sid" /\ V(dominant).direction = "acidosis"
                     THEN <<"hyperchloremic_pattern">> ELSE << >>)
                 \o (IF V(dominant).identifier = "lactate"
                     THEN <<"lactate_dominant">> ELSE << >>)
        lactate_component == FirstWhere(mcs, "identifier", "lactate")
    IN  from_dominant
        \o (IF ~IsNone(lactate_component)
               /\ V(lactate_component).level \in {"significant", "dominant"}
               /\ (IsNone(dominant) \/ V(dominant).identifier # "lactate")
            THEN <<"lactate_significant">> ELSE << >>)
        \o (IF ~IsNone(sig) /\ V(sig) > SIG_THRESHOLD
            THEN <<"sig_elevated">> ELSE << >>)
        \o (IF total_acidosis > 20 /\ total_alkalosis > 20
            THEN <<"masking_present">> ELSE << >>)
        \o (IF ~IsNone(FirstWhere(SelectSeq(mcs, LAMBDA m : m.direction = "alkalosis"),
                                  "identifier", "albumin"))
               /\ total_acidosis > CLINICAL_SIGNIFICANCE_THRESHOLD
            THEN <<"masked_acidosis_risk">> ELSE << >>)

\* a ranking without the override of lines 763-765
determine_metabolic_dominance_unmasked(contributions, flags) ==
    LET be == contributions.be
        mechanism_inputs == contributions.mechanisms
        total_acidosis == TotalAcidosis(mechanism_inputs, 1)
        total_alkalosis == TotalAlkalosis(mechanism_inputs, 1)
        total_reference == TotalReference(be, total_acidosis, total_alkalosis)
        unsorted == MechanismContributions(mechanism_inputs, total_reference, 1)
        mechanism_contributions == SortByPercent(unsorted, Len(unsorted))
        dominant == InitialDominant(mechanism_contributions)
        negligible == Abs(total_reference) < CLINICAL_SIGNIFICANCE_THRESHOLD
    IN  [total_metabolic_effect |-> be,
         all_mechanisms |-> mechanism_contributions,
         dominant |-> IF negligible THEN None ELSE dominant,
         significant |-> WithLevel(mechanism_contributions, "significant"),
         contributing |-> WithLevel(mechanism_contributions, "contributing"),
         pattern_flags |-> IF negligible THEN << >>
                           ELSE PatternFlags(mechanism_contributions, dominant,
                                             contributions.sig, total_acidosis,
                                             total_alkalosis)]

\* DominanceResult; contributions is the dict {"be", "sig", "mechanisms"},
\* flags is a parameter the code never reads
determine_metabolic_dominance(contributions, flags) ==
    LET be == contributions.be
        sig == contributions.sig
        mechanism_inputs == contributions.mechanisms
        total_acidosis == TotalAcidosis(mechanism_inputs, 1)
        total_alkalosis == TotalAlkalosis(mechanism_inputs, 1)
        total_reference == TotalReference(be, total_acidosis, total_alkalosis)
        unsorted == MechanismContributions(mechanism_inputs, total_reference, 1)
        mechanism_contributions == SortByPercent(unsorted, Len(unsorted))
        dominant == InitialDominant(mechanism_contributions)
        pattern_flags == PatternFlags(mechanism_contributions, dominant, sig,
                                      total_acidosis, total_alkalosis)
        \* lines 763-765: with BE >= 0 an acidosis mechanism gives way to the
        \* leading alkalosis mechanism, if there is one
        redirected ==
            IF be >= 0 /\ ~IsNone(dominant) /\ V(dominant).direction = "acidosis"
            THEN FirstWhere(mechanism_contributions, "direction", "alkalosis")
            ELSE dominant
        negligible == Abs(total_reference) < CLINICAL_SIGNIFICANCE_THRESHOLD
    IN  [total_metabolic_effect |-> be,
         all_mechanisms |-> mechanism_contributions,
         dominant |-> IF negligible THEN None ELSE redirected,
         significant |-> WithLevel(mechanism_contributions, "significant"),
         contributing |-> WithLevel(mechanism_contributions, "contributing"),
         pattern_flags |-> IF negligible THEN << >> ELSE pattern_flags]

\* the list "mechanisms" that analyze_mechanisms builds (lines 796-835)
MechanismInputs(sid_effect, albumin_effect, lactate_effect, residual_effect) ==
    (IF Abs(sid_effect) > CLINICAL_SIGNIFICANCE_THRESHOLD
     THEN << [identifier |-> "sid", name |-> "SID etkisi",
              description |-> IF sid_effect < 0
                              THEN "Guclu iyon (SID) aracili metabolik asidoz"
                              ELSE "Guclu iyon (SID) aracili metabolik alkaloz",
              effect |-> sid_effect,
              direction |-> IF sid_effect < 0 THEN "acidosis" ELSE "alkalosis"] >>
     ELSE << >>)
    \o (IF ~IsNone(lactate_effect) /\ Abs(V(lactate_effect)) > 5
        THEN << [identifier |-> "lactate", name |-> "Laktat aracili etki",
                 description |-> "Laktat aracili metabolik asidoz mekanizmasi",
                 effect |-> V(lactate_effect), direction |-> "acidosis"] >>
        ELSE << >>)
    \o (IF ~IsNone(albumin_effect)
           /\ Abs(V(albumin_effect)) > CLINICAL_SIGNIFICANCE_THRESHOLD
        THEN << [identifier |-> "albumin", name |-> "Albumin etkisi",
                 description |-> IF V(albumin_effect) > 0
                                 THEN "Zayif asit azalmasi (hipoalbuminemi) etkisi"
                                 ELSE "Zayif asit artisi etkisi",
                 effect |-> V(albumin_effect),
                 direction |-> IF V(albumin_effect) > 0 THEN "alkalosis"
                               ELSE "acidosis"] >>
        ELSE << >>)
    \o (IF ~IsNone(residual_effect)
           /\ Abs(V(residual_effect)) > CLINICAL_SIGNIFICANCE_THRESHOLD
        THEN << [identifier |-> "unmeasured", name |-> "Olculmemis bilesen etkisi",
                 description |-> IF V(residual_effect) < 0
                                 THEN "Olculmemis anyon aracili etki"
                                 ELSE "Olculmemis katyon aracili etki",
                 effect |-> V(residual_effect),
                 direction |-> IF V(residual_effect) < 0 THEN "acidosis"
                               ELSE "alkalosis"] >>
        ELSE << >>)

\* "kompanzasyon" in status.lower() and "uygun" in status.lower(): of the
\* statuses assess_compensation returns, only this one
IsAppropriateCompensation(compensation_status) ==
    compensation_status = "Uygun respiratuvar kompanzasyon"

\* pattern_description of lines 846-858, as the list of its sentences
PatternDescription(dominance_result) ==
    LET dominant == dominance_result.dominant
    IN  (IF IsNone(dominant) THEN << >>
         ELSE IF V(dominant).identifier = "unmeasured" THEN <<"unmeasured_anion">>
         ELSE IF V(dominant).identifier = "sid" /\ V(dominant).direction = "acidosis"
         THEN <<"hyperchloremic">>
         ELSE IF V(dominant).identifier = "lactate" THEN <<"lactate">>
         ELSE << >>)
        \o (IF Has(dominance_result.pattern_flags, "masking_present")
            THEN <<"masking">> ELSE << >>)

\* resp_status of lines 860-872
RespiratoryStatus(pco2, compensation_status) ==
    IF pco2 > PCO2_NORMAL_HIGH
    THEN IF IsAppropriateCompensation(compensation_status)
         THEN "Solunumsal kompanzasyon (yetersiz veya ek respiratuvar asidoz)"
         ELSE "Respiratuvar asidoz bileseni mevcut"
    ELSE IF pco2 < PCO2_NORMAL_LOW
    THEN IF IsAppropriateCompensation(compensation_status)
         THEN "Uygun solunumsal kompanzasyon"
         ELSE "Respiratuvar alkaloz bileseni mevcut"
    ELSE "Solunumsal bilesen normal"

\* MechanismAnalysis
analyze_mechanisms(be, sid_effect, albumin_effect, lactate_effect, residual_effect, sig, pco2, compensation_status) ==
    LET mechanisms == MechanismInputs(sid_effect, albumin_effect, lactate_effect,
                                      residual_effect)
        dominance_result == determine_metabolic_dominance(
                                [be |-> be, sig |-> sig, mechanisms |-> mechanisms],
                                << >>)
    IN  [total_metabolic_effect |-> be,
         dominant_mechanism |-> dominance_result.dominant,
         significant_mechanisms |-> dominance_result.significant,
         contributing_mechanisms |-> dominance_result.contributing,
         all_mechanisms |-> dominance_result.all_mechanisms,
         pattern_description |-> PatternDescription(dominance_result),
         respiratory_status |-> RespiratoryStatus(pco2, compensation_status),
         respiratory_details |-> compensation_status]

\* f"{text} ({percent:.0f}% ...)": the text and the percent rounded to a whole
Labelled(text, percent) == <<text, RoundDiv(percent, 10)>>

RECURSIVE SignificantList(_)
SignificantList(mcs) ==
    IF Len(mcs) = 0 THEN << >>
    ELSE <<Labelled(Head(mcs).description, Head(mcs).contribution_percent)>>
         \o SignificantList(Tail(mcs))

RECURSIVE ContributingList(_)
ContributingList(mcs) ==
    IF Len(mcs) = 0 THEN << >>
    ELSE (IF Head(mcs).contribution_percent >= 100
          THEN <<Labelled(Head(mcs).name, Head(mcs).contribution_percent)>>
          ELSE << >>)
         \o ContributingList(Tail(mcs))

\* Headline; ph and pco2 are parameters the code never reads
generate_headline(mechanism_analysis, ph, pco2, be) ==
    LET dm == mechanism_analysis.dominant_mechanism
        dominant_str ==
            IF Abs(be) < CLINICAL_SIGNIFICANCE_THRESHOLD
            THEN <<"Normal asit-baz dengesi">>
            ELSE IF ~IsNone(dm)
            THEN Labelled(V(dm).description, V(dm).contribution_percent)
            ELSE IF be < 0 THEN <<"Metabolik asidoz (mekanizma belirlenemedi)">>
            ELSE <<"Metabolik alkaloz (mekanizma belirlenemedi)">>
    IN  [dominant_mechanism |-> dominant_str,
         significant_mechanisms |-> SignificantList(mechanism_analysis.significant_mechanisms),
         contributing_mechanisms |-> ContributingList(mechanism_analysis.contributing_mechanisms),
         respiratory_status |-> mechanism_analysis.respiratory_status,
         pattern_note |-> mechanism_analysis.pattern_description]

(***************************************************************************)
(* core.py: analyze_stewart                                                *)
(***************************************************************************)
\* SIDValues(0, "", None, "", None, "", [])
empty_sid ==
    [sid_simple |-> 0, sid_simple_status |-> "", sid_basic |-> None,
     sid_basic_status |-> "", sid_full |-> None, sid_full_status |-> "",
     sid_full_missing |-> << >>]

\* the StewartOutput returned when validation fails: the constructor's
\* arguments of lines 1120-1124 and the dataclass defaults for the rest
FailedOutput ==
    [hco3_calculated |-> 0, hco3_used |-> 0, hco3_source |-> "",
     be_calculated |-> 0, be_used |-> 0, be_source |-> "",
     sid_values |-> empty_sid, sid_effective |-> None, sig |-> None,
     sig_reliability |-> "unknown", atot |-> None,
     sid_effect |-> 0, albumin_effect |-> None, lactate_effect |-> None,
     residual_effect |-> None, respiratory_effect |-> 0,
     anion_gap |-> 0, anion_gap_corrected |-> None,
     expected_pco2 |-> None, expected_hco3 |-> None,
     compensation_status |-> "", observed_expected_diff |-> None,
     contribution |-> None,
     mechanism_analysis |-> None, headline |-> None,
     flags |-> <<"VALIDATION_FAILED">>, warnings |-> << >>,
     dominant_disorder |-> None, disorder_components |-> << >>,
     missing_params |-> << >>, assumed_params |-> << >>]

\* hco3_used, hco3_source and the flag / warning of the HCO3 step
Hco3Step(i, hco3_calculated) ==
    IF ~IsNone(i.hco3)
    THEN LET is_consistent == check_hco3_consistency(V(i.hco3), hco3_calculated)[1]
         IN  [used |-> V(i.hco3), source |-> "manual",
              flags |-> IF is_consistent THEN << >> ELSE <<"HCO3_MISMATCH">>,
              warnings |-> IF is_consistent THEN << >> ELSE <<"hco3_mismatch">>]
    ELSE [used |-> hco3_calculated, source |-> "calculated",
          flags |-> <<"HCO3_CALCULATED">>, warnings |-> << >>]

\* a BE step that takes the entered BE as a base excess whatever the flag says
BeStepIgnoringBaseDeficit(i, be_calculated) ==
    IF ~IsNone(i.be)
    THEN LET is_consistent == check_be_consistency(V(i.be), be_calculated)[1]
         IN  [used |-> V(i.be), source |-> "manual",
              flags |-> IF is_consistent THEN << >> ELSE <<"BE_MISMATCH">>,
              warnings |-> IF is_consistent THEN << >> ELSE <<"be_mismatch">>]
    ELSE [used |-> be_calculated, source |-> "calculated",
          flags |-> <<"BE_CALCULATED">>, warnings |-> << >>]

\* be_used, be_source and the flag / warning of the BE step
BeStep(i, be_calculated) ==
    IF ~IsNone(i.be)
    THEN LET be_input == IF i.is_be_base_deficit THEN -V(i.be) ELSE V(i.be)
             is_consistent == check_be_consistency(be_input, be_calculated)[1]
         IN  [used |-> be_input, source |-> "manual",
              flags |-> IF is_consistent THEN << >> ELSE <<"BE_MISMATCH">>,
              warnings |-> IF is_consistent THEN << >> ELSE <<"be_mismatch">>]
    ELSE [used |-> be_calculated, source |-> "calculated",
          flags |-> <<"BE_CALCULATED">>, warnings |-> << >>]

\* an analysis that runs the advanced block whatever the mode
AdvancedStepInEveryMode(i, m, hco3_used, sid_values) ==
    LET se == calculate_sid_effective(V(i.ph), hco3_used, i.albumin_gl, i.po4)
        rel == assess_sig_reliability(i.lactate, i.ca, i.mg, i.albumin_gl)
    IN  [sid_effective |-> Num(se[1]),
         sig |-> Num(calculate_sig(V(sid_values.sid_full), se[1])),
         sig_reliability |-> rel[1],
         atot |-> calculate_atot(i.albumin_gl, i.po4),
         flags |-> << >>, warnings |-> << >>]

\* the "if mode == 'advanced'" block: SIDeffective, SIG, reliability, Atot
AdvancedStep(i, m, hco3_used, sid_values) ==
    IF m = "advanced"
    THEN LET se == calculate_sid_effective(V(i.ph), hco3_used, i.albumin_gl, i.po4)
             rel == assess_sig_reliability(i.lactate, i.ca, i.mg, i.albumin_gl)
             has_full == ~IsNone(sid_values.sid_full)
         IN  [sid_effective |-> Num(se[1]),
              sig |-> IF has_full THEN Num(calculate_sig(V(sid_values.sid_full), se[1]))
                      ELSE None,
              sig_reliability |-> IF has_full THEN rel[1] ELSE "unknown",
              atot |-> calculate_atot(i.albumin_gl, i.po4),
              flags |-> (IF Len(se[2]) > 0 THEN <<"SID_EFFECTIVE_APPROXIMATE">> ELSE << >>)
                        \o (IF ~has_full THEN << >>
                            ELSE IF rel[1] = "approximate" THEN <<"SIG_APPROXIMATE">>
                            ELSE IF rel[1] = "underestimated" THEN <<"SIG_UNDERESTIMATED">>
                            ELSE IF rel[1] = "unreliable" THEN <<"SIG_UNRELIABLE">>
                            ELSE << >>),
              warnings |-> (IF Len(se[2]) > 0 THEN <<"sid_effective_approximate">> ELSE << >>)
                           \o (IF has_full THEN rel[2] ELSE << >>)]
    ELSE [sid_effective |-> None, sig |-> None, sig_reliability |-> "unknown",
          atot |-> None, flags |-> << >>, warnings |-> << >>]

\* missing_params of lines 1253-1266
MissingParams(i, m, sid_values) ==
    (IF IsNone(i.albumin_gl) THEN <<"Albumin">> ELSE << >>)
    \o (IF IsNone(i.lactate) THEN <<"Laktat">> ELSE << >>)
    \o (IF m = "advanced" THEN sid_values.sid_full_missing ELSE << >>)

\* the analysis of an input that passed validate_input
ValidOutput(i, m) ==
    LET hco3_calculated == calculate_hco3(V(i.ph), V(i.pco2))
        h == Hco3Step(i, hco3_calculated)
        be_calculated == calculate_be(V(i.ph), h.used)
        b == BeStep(i, be_calculated)
        sid_values == calculate_all_sids(i)
        \* albumin_gl / 10: g/L in 1/10 is g/dL in 1/100
        albumin_gdl == i.albumin_gl
        sid_approx == sid_values.sid_full_status # "complete"
        sid_effect == calculate_sid_effect(sid_values.sid_simple)
        albumin_effect == IF ~IsNone(albumin_gdl)
                          THEN Num(calculate_albumin_effect(V(albumin_gdl))) ELSE None
        lactate_effect == IF ~IsNone(i.lactate)
                          THEN Num(calculate_lactate_effect(V(i.lactate))) ELSE None
        residual_effect == calculate_residual_effect(b.used, sid_effect,
                                                     albumin_effect, lactate_effect)
        ag == calculate_anion_gap(V(i.na), V(i.cl), h.used)
        ag_corrected == IF ~IsNone(albumin_gdl)
                        THEN Num(calculate_corrected_anion_gap(ag, V(albumin_gdl)))
                        ELSE None
        adv == AdvancedStep(i, m, h.used, sid_values)
        comp == assess_compensation(V(i.ph), V(i.pco2), h.used, b.used)
        mechanism_analysis == analyze_mechanisms(b.used, sid_effect, albumin_effect,
                                  lactate_effect, Num(residual_effect), adv.sig,
                                  V(i.pco2), comp.compensation_status)
        headline == generate_headline(mechanism_analysis, V(i.ph), V(i.pco2), b.used)
        missing_params == MissingParams(i, m, sid_values)
        dom == determine_dominant_disorder(V(i.ph), V(i.pco2), b.used, sid_effect,
                   albumin_effect, i.lactate, Num(residual_effect), adv.sig)
    IN  [hco3_calculated |-> hco3_calculated, hco3_used |-> h.used,
         hco3_source |-> h.source,
         be_calculated |-> be_calculated, be_used |-> b.used, be_source |-> b.source,
         sid_values |-> sid_values, sid_effective |-> adv.sid_effective,
         sig |-> adv.sig, sig_reliability |-> adv.sig_reliability, atot |-> adv.atot,
         sid_effect |-> sid_effect, albumin_effect |-> albumin_effect,
         lactate_effect |-> lactate_effect, residual_effect |-> Num(residual_effect),
         respiratory_effect |-> calculate_respiratory_effect(V(i.pco2)),
         anion_gap |-> ag, anion_gap_corrected |-> ag_corrected,
         expected_pco2 |-> comp.expected_pco2, expected_hco3 |-> comp.expected_hco3,
         compensation_status |-> comp.compensation_status,
         observed_expected_diff |-> comp.observed_expected_diff,
         contribution |-> Num([net_metabolic |-> NetMetabolic(sid_effect, albumin_effect,
                                    lactate_effect, Num(residual_effect))]),
         mechanism_analysis |-> Num(mechanism_analysis), headline |-> Num(headline),
         flags |-> h.flags \o b.flags
                   \o (IF sid_approx THEN <<"SID_FULL_APPROXIMATE">> ELSE << >>)
                   \o adv.flags
                   \o (IF Len(missing_params) > 0 THEN <<"INCOMPLETE_DATA">> ELSE << >>),
         warnings |-> h.warnings \o b.warnings
                      \o (IF sid_approx THEN <<"sid_full_approximate">> ELSE << >>)
                      \o adv.warnings,
         dominant_disorder |-> Num(dom[1]), disorder_components |-> dom[2],
         missing_params |-> missing_params, assumed_params |-> << >>]

\* (StewartOutput, ValidationResult)
\* "PH_MIN <= inp.ph" raises TypeError when a required field is None
analyze_stewart_raises(i) ==
    IsNone(i.ph) \/ IsNone(i.pco2) \/ IsNone(i.na) \/ IsNone(i.cl)

analyze_stewart(i, m) ==
    LET validation == validate_input(i)
    IN  IF ~validation.is_valid THEN <<FailedOutput, validation>>
        ELSE <<ValidOutput(i, m), validation>>

(***************************************************************************)
(* Python dicts: functions from the keys present to tagged values          *)
(***************************************************************************)
\* d.get(key)
Get(dict, key) == IF key \in DOMAIN dict THEN dict[key] ELSE None

\* d.get(key, default)
GetDefault(dict, key, default) == IF key \in DOMAIN dict THEN dict[key] ELSE default

\* bool(x) of a tagged value: None and 0 are falsy, NaN is truthy
Truthy(x) == IsNaN(x) \/ (IsNum(x) /\ V(x) # 0)

\* a or b
PyOr(a, b) == IF Truthy(a) THEN a ELSE b

(***************************************************************************)
(* core.py: CSV export / import                                            *)
(***************************************************************************)
\* lists joined with "," or "|" are kept as the lists themselves
output_to_dict(i, o) ==
    [ph |-> i.ph, pco2 |-> i.pco2, na |-> i.na, cl |-> i.cl,
     k |-> i.k, ca |-> i.ca, mg |-> i.mg, lactate |-> i.lactate,
     albumin_gl |-> i.albumin_gl, po4 |-> i.po4,
     be_input |-> i.be, hco3_input |-> i.hco3,
     hco3_calculated |-> o.hco3_calculated, hco3_used |-> o.hco3_used,
     be_calculated |-> o.be_calculated, be_used |-> o.be_used,
     sid_simple |-> o.sid_values.sid_simple,
     sid_basic |-> o.sid_values.sid_basic,
     sid_full |-> o.sid_values.sid_full,
     sid_effective |-> o.sid_effective, sig |-> o.sig,
     sig_reliability |-> o.sig_reliability,
     sid_effect |-> o.sid_effect, albumin_effect |-> o.albumin_effect,
     lactate_effect |-> o.lactate_effect, residual_effect |-> o.residual_effect,
     anion_gap |-> o.anion_gap, anion_gap_corrected |-> o.anion_gap_corrected,
     compensation_status |-> o.compensation_status,
     dominant_disorder |-> o.dominant_disorder,
     disorder_components |-> o.disorder_components,
     flags |-> o.flags, warnings |-> o.warnings,
     missing_params |-> o.missing_params]

\* safe_float: None and NaN become None
safe_float(x) == IF IsNone(x) \/ IsNaN(x) THEN None ELSE x

\* float(d.get(key, default)) raises TypeError on None
FloatRaises(dict, key) == key \in DOMAIN dict /\ IsNone(dict[key])

dict_to_input_raises(dict) ==
    \E key \in {"ph", "pco2", "na", "cl"} : FloatRaises(dict, key)

\* is_be_base_deficit is not among the constructor's arguments: the dataclass
\* default False applies
dict_to_input(dict) ==
    [ph |-> GetDefault(dict, "ph", Num(740)),
     pco2 |-> GetDefault(dict, "pco2", Num(400)),
     na |-> GetDefault(dict, "na", Num(1400)),
     cl |-> GetDefault(dict, "cl", Num(1000)),
     hco3 |-> safe_float(PyOr(Get(dict, "hco3"), Get(dict, "hco3_input"))),
     be |-> safe_float(PyOr(Get(dict, "be"), Get(dict, "be_input"))),
     k |-> safe_float(Get(dict, "k")), ca |-> safe_float(Get(dict, "ca")),
     mg |-> safe_float(Get(dict, "mg")), lactate |-> safe_float(Get(dict, "lactate")),
     albumin_gl |-> safe_float(Get(dict, "albumin_gl")),
     po4 |-> safe_float(Get(dict, "po4")),
     is_be_base_deficit |-> FALSE]

(***************************************************************************)
(* validation.py: validate_input_dict                                      *)
(* Messages are pairs <<parameter, kind>>; strings from a CSV cell are not *)
(* modelled, a cell is None, NaN or a number.                              *)
(***************************************************************************)
sanitize_numeric(value, allow_negative) ==
    IF IsNone(value) \/ IsNaN(value) THEN None
    ELSE IF allow_negative \/ V(value) >= 0 THEN value ELSE None

\* constants.py PHYSIOLOGIC_LIMITS
PHYSIOLOGIC_LIMITS ==
    [ph |-> <<PH_MIN, PH_MAX>>, pco2 |-> <<PCO2_MIN, PCO2_MAX>>,
     na |-> <<NA_MIN, NA_MAX>>, cl |-> <<CL_MIN, CL_MAX>>,
     k |-> <<K_MIN, K_MAX>>, lactate |-> <<LACTATE_MIN, LACTATE_MAX>>]

\* constants.py EXTREME_THRESHOLDS: (has low, low, has high, high)
EXTREME_THRESHOLDS ==
    [ph |-> <<TRUE, 700, TRUE, 770>>, pco2 |-> <<FALSE, 0, TRUE, 1200>>,
     na |-> <<TRUE, 1200, TRUE, 1700>>, cl |-> <<TRUE, 700, TRUE, 1300>>,
     k |-> <<TRUE, 20, TRUE, 70>>, lactate |-> <<FALSE, 0, TRUE, 100>>]

\* no threshold entry has a critical_low / critical_high key: the critical
\* branch of assess_severity is never taken
assess_severity(param, value) ==
    IF param \notin DOMAIN EXTREME_THRESHOLDS THEN <<"normal", None>>
    ELSE LET t == EXTREME_THRESHOLDS[param]
         IN  IF t[1] /\ value < t[2] THEN <<"severe", <<param, "severe_low">> >>
             ELSE IF t[3] /\ value > t[4] THEN <<"severe", <<param, "severe_high">> >>
             ELSE <<"normal", None>>

\* what apply_three_tier_validation adds to the result
apply_three_tier_validation(param, value) ==
    IF param \in DOMAIN PHYSIOLOGIC_LIMITS
       /\ (value < PHYSIOLOGIC_LIMITS[param][1] \/ value > PHYSIOLOGIC_LIMITS[param][2])
    THEN [errors |-> << <<param, "outside_physiologic_limits">> >>, warnings |-> << >>]
    ELSE LET sev == assess_severity(param, value)
         IN  [errors |-> << >>,
              warnings |-> IF sev[1] = "severe" THEN <<sev[2]>> ELSE << >>]

validate_range(value, min_val, max_val) == ~(value < min_val \/ value > max_val)

RequiredParams == <<"ph", "pco2", "na", "cl">>

\* optional_params, in the dict's order
OptionalParams == <<"k", "ca", "mg", "lactate", "po4">>

OptionalRange ==
    [k |-> <<K_MIN, K_MAX>>, ca |-> <<CA_MIN, CA_MAX>>, mg |-> <<MG_MIN, MG_MAX>>,
     lactate |-> <<LACTATE_MIN, LACTATE_MAX>>, po4 |-> <<PO4_MIN, PO4_MAX>>]

\* what the loop body over one optional parameter adds
OptionalStep(data, param) ==
    LET raw_value == Get(data, param)
        value == sanitize_numeric(raw_value, FALSE)
    IN  IF ~IsNone(raw_value) /\ IsNone(value)
        THEN [errors |-> << <<param, "invalid">> >>, warnings |-> << >>,
              normalized |-> << >>]
        ELSE IF IsNone(value)
        THEN [errors |-> << >>, warnings |-> << >>, normalized |-> << >>]
        ELSE IF param \in DOMAIN PHYSIOLOGIC_LIMITS \/ param \in DOMAIN EXTREME_THRESHOLDS
        THEN LET t == apply_three_tier_validation(param, V(value))
             IN  [errors |-> t.errors, warnings |-> t.warnings,
                  normalized |-> (param :> value)]
        ELSE [errors |-> << >>,
              warnings |-> IF validate_range(V(value), OptionalRange[param][1],
                                             OptionalRange[param][2])
                           THEN << >> ELSE << <<param, "out_of_range">> >>,
              normalized |-> (param :> value)]

RECURSIVE OptionalLoop(_, _)
\* errors, warnings and normalized values of optional parameters n..5
OptionalLoop(data, n) ==
    IF n > Len(OptionalParams)
    THEN [errors |-> << >>, warnings |-> << >>, normalized |-> << >>]
    ELSE LET here == OptionalStep(data, OptionalParams[n])
             rest == OptionalLoop(data, n + 1)
         IN  [errors |-> here.errors \o rest.errors,
              warnings |-> here.warnings \o rest.warnings,
              normalized |-> here.normalized @@ rest.normalized]

detect_albumin_unit(value) == IF value < 100 THEN "g/dL" ELSE "g/L"

\* the albumin block: unit detection, conversion, range check
AlbuminStep(data) ==
    LET albumin_raw == PyOr(PyOr(Get(data, "albumin"), Get(data, "albumin_gl")),
                            Get(data, "albumin_gdl"))
        albumin_value == sanitize_numeric(albumin_raw, FALSE)
    IN  IF IsNone(albumin_value) THEN [warnings |-> << >>, normalized |-> << >>]
        ELSE LET converted == detect_albumin_unit(V(albumin_value)) = "g/dL"
                 albumin_gl == IF converted THEN V(albumin_value) * 10
                               ELSE V(albumin_value)
                 in_range == ALBUMIN_MIN_GL <= albumin_gl /\ albumin_gl <= ALBUMIN_MAX_GL
             IN  [warnings |-> (IF converted THEN << <<"albumin", "converted">> >> ELSE << >>)
                               \o (IF in_range THEN << >>
                                   ELSE << <<"albumin", "out_of_range">> >>),
                  normalized |-> IF in_range THEN ("albumin_gl" :> Num(albumin_gl))
                                 ELSE << >>]

BeStepDict(data) ==
    LET be_value == sanitize_numeric(Get(data, "be"), TRUE)
    IN  IF IsNone(be_value) THEN [warnings |-> << >>, normalized |-> << >>]
        ELSE IF validate_range(V(be_value), BE_MIN, BE_MAX)
        THEN [warnings |-> << >>, normalized |-> ("be" :> be_value)]
        ELSE [warnings |-> << <<"be", "out_of_range">> >>, normalized |-> << >>]

Hco3StepDict(data) ==
    LET hco3_value == sanitize_numeric(Get(data, "hco3"), FALSE)
    IN  IF IsNone(hco3_value) THEN [warnings |-> << >>, normalized |-> << >>]
        ELSE IF 50 <= V(hco3_value) /\ V(hco3_value) <= 500
        THEN [warnings |-> << >>, normalized |-> ("hco3" :> hco3_value)]
        ELSE [warnings |-> << <<"hco3", "out_of_range">> >>, normalized |-> << >>]

\* is_base_deficit is a bool in the record (its string forms are not modelled)
BaseDeficitFlag(data) ==
    IF "is_base_deficit" \in DOMAIN data THEN data["is_base_deficit"] ELSE FALSE

RECURSIVE RequiredMissing(_, _)
\* the errors of the first loop: required parameters that sanitize to None
RequiredMissing(data, n) ==
    IF n > Len(RequiredParams) THEN << >>
    ELSE (IF IsNone(sanitize_numeric(Get(data, RequiredParams[n]), FALSE))
          THEN << <<RequiredParams[n], "missing">> >> ELSE << >>)
         \o RequiredMissing(data, n + 1)

RECURSIVE RequiredTiers(_, _)
RequiredTiers(data, n) ==
    IF n > Len(RequiredParams)
    THEN [errors |-> << >>, warnings |-> << >>]
    ELSE LET here == apply_three_tier_validation(RequiredParams[n],
                                                 V(data[RequiredParams[n]]))
             rest == RequiredTiers(data, n + 1)
         IN  [errors |-> here.errors \o rest.errors,
              warnings |-> here.warnings \o rest.warnings]

validate_input_dict(data, m) ==
    LET missing == RequiredMissing(data, 1)
    IN  IF Len(missing) > 0
        THEN [is_valid |-> FALSE, errors |-> missing, warnings |-> << >>,
              normalized_values |-> << >>]
        ELSE LET req == RequiredTiers(data, 1)
                 opt == OptionalLoop(data, 1)
                 be == BeStepDict(data)
                 hco3 == Hco3StepDict(data)
                 alb == AlbuminStep(data)
                 errors == req.errors \o opt.errors
             IN  [is_valid |-> Len(errors) = 0, errors |-> errors,
                  warnings |-> req.warnings \o opt.warnings \o be.warnings
                               \o hco3.warnings \o alb.warnings,
                  normalized_values |->
                      [key \in {"ph", "pco2", "na", "cl"} |-> data[key]]
                      @@ opt.normalized @@ be.normalized @@ hco3.normalized
                      @@ alb.normalized
                      @@ ("is_be_base_deficit" :> BaseDeficitFlag(data))]

(***************************************************************************)
(* validation.py: CSV rows.  Keys are lower-case already and a cell is     *)
(* None, NaN or a number, so of sanitize_csv_row only the numeric parsing  *)
(* is modelled.                                                            *)
(***************************************************************************)
NUMERIC_FIELDS == {"ph", "pco2", "hco3", "na", "cl", "k", "ca", "mg",
                   "lactate", "albumin", "po4", "be"}

parse_maybe_number(value, field) == sanitize_numeric(value, field = "be")

sanitize_csv_row(row) ==
    [key \in DOMAIN row |->
        IF key \in NUMERIC_FIELDS THEN parse_maybe_number(row[key], key)
        ELSE row[key]]

\* SwapSuspicion(...)
SwapSuspicion(confidence, na, cl, user_action_required) ==
    [is_suspicious |-> TRUE, confidence |-> confidence,
     original_na |-> na, original_cl |-> cl,
     suggested_na |-> cl, suggested_cl |-> na,
     user_action_required |-> user_action_required]

\* SwapSuspicion()
NoSwapSuspicion ==
    [is_suspicious |-> FALSE, confidence |-> "none",
     original_na |-> None, original_cl |-> None,
     suggested_na |-> None, suggested_cl |-> None,
     user_action_required |-> FALSE]

analyze_na_cl_swap_suspicion(na, cl) ==
    IF IsNone(na) \/ IsNone(cl) THEN NoSwapSuspicion
    ELSE LET n == V(na)
             c == V(cl)
         IN  IF (950 <= n /\ n <= 1100) /\ (1350 <= c /\ c <= 1450)
             THEN SwapSuspicion("high", na, cl, TRUE)
             ELSE IF n < 1000 /\ c > 1350 /\ (c - n) > 350
             THEN SwapSuspicion("high", na, cl, TRUE)
             ELSE IF n < 1150 /\ c > 1250 /\ c > n /\ (c - n) > 200
             THEN SwapSuspicion("medium", na, cl, TRUE)
             ELSE IF n < c /\ c > 1200
             THEN SwapSuspicion("low", na, cl, FALSE)
             ELSE NoSwapSuspicion

\* result.warnings after the swap-suspicion block of validate_csv_row
SwapWarnings(warnings, swap_suspicion) ==
    IF ~swap_suspicion.is_suspicious THEN warnings
    ELSE IF swap_suspicion.confidence = "high"
    THEN << <<"na_cl_swap", "high">> >> \o warnings
    ELSE IF swap_suspicion.confidence = "medium"
    THEN warnings \o << <<"na_cl_swap", "medium">> >>
    ELSE IF swap_suspicion.confidence = "low"
    THEN warnings \o << <<"na_cl_swap", "low">> >>
    ELSE warnings

\* a validation that takes over the suggested values of a high-confidence
\* suspicion
validate_csv_row_swapping(row, row_index) ==
    LET sanitized == sanitize_csv_row(row)
        swap_suspicion == analyze_na_cl_swap_suspicion(Get(sanitized, "na"),
                                                       Get(sanitized, "cl"))
        used == IF swap_suspicion.confidence = "high"
                THEN [sanitized EXCEPT !["na"] = swap_suspicion.suggested_na,
                                       !["cl"] = swap_suspicion.suggested_cl]
                ELSE sanitized
        result == validate_input_dict(used, "quick")
    IN  [result EXCEPT !.warnings = SwapWarnings(result.warnings, swap_suspicion),
                       !.errors = [n \in DOMAIN result.errors |->
                                     [row |-> row_index + 1, error |-> result.errors[n]]]]

validate_csv_row(row, row_index) ==
    LET sanitized == sanitize_csv_row(row)
        result == validate_input_dict(sanitized, "quick")
        swap_suspicion == analyze_na_cl_swap_suspicion(Get(sanitized, "na"),
                                                       Get(sanitized, "cl"))
        warnings == SwapWarnings(result.warnings, swap_suspicion)
    IN  IF ~result.is_valid
        THEN [result EXCEPT !.warnings = warnings,
                            !.errors = [n \in DOMAIN result.errors |->
                                          [row |-> row_index + 1,
                                           error |-> result.errors[n]]]]
        ELSE LET normalized == result.normalized_values
                 ph == V(GetDefault(normalized, "ph", Num(740)))
                 pco2 == V(GetDefault(normalized, "pco2", Num(400)))
             IN  [result EXCEPT !.warnings =
                     warnings \o (IF ph < 700 /\ pco2 < 200
                                  THEN << <<"ph_pco2", "unusual_combination">> >>
                                  ELSE << >>)]

(***************************************************************************)
(* core.py: normalize_input                                                *)
(***************************************************************************)
stewart_input_from_normalized(values) ==
    [ph |-> values["ph"], pco2 |-> values["pco2"],
     na |-> values["na"], cl |-> values["cl"],
     hco3 |-> Get(values, "hco3"), be |-> Get(values, "be"),
     k |-> Get(values, "k"), ca |-> Get(values, "ca"), mg |-> Get(values, "mg"),
     lactate |-> Get(values, "lactate"), albumin_gl |-> Get(values, "albumin_gl"),
     po4 |-> Get(values, "po4"),
     is_be_base_deficit |-> GetDefault(values, "is_be_base_deficit", FALSE)]

\* (Optional[StewartInput], ValidationResult)
normalize_input(data, m) ==
    LET validation == validate_input_dict(data, m)
    IN  IF ~validation.is_valid THEN <<None, validation>>
        ELSE <<Num(stewart_input_from_normalized(validation.normalized_values)),
               validation>>

(***************************************************************************)
(* Inputs.  A raw record (a CSV row, an API dict, the fields of the form)  *)
(* is built from an assignment of a tagged value, or Absent, to every key. *)
(***************************************************************************)
Absent == <<0, 0, 0>>

MeasureKeys == {"ph", "pco2", "na", "cl", "hco3", "be", "k", "ca", "mg",
                "lactate", "albumin_gl", "po4"}
RequiredKeys == {"ph", "pco2", "na", "cl"}
OptionalKeys == {"k", "ca", "mg", "lactate", "albumin_gl", "po4"}

\* the record holding the keys of the assignment that are not Absent
Record(assign, is_bd) ==
    [key \in {x \in MeasureKeys : assign[x] # Absent} |-> assign[key]]
    @@ (IF is_bd THEN ("is_base_deficit" :> TRUE) ELSE << >>)

\* a complete normal blood gas
NormalCase ==
    [ph |-> Num(740), pco2 |-> Num(400), na |-> Num(1400), cl |-> Num(1000),
     hco3 |-> Absent, be |-> Absent, k |-> Num(40), ca |-> Num(125),
     mg |-> Num(85), lactate |-> Num(10), albumin_gl |-> Num(400), po4 |-> Num(10)]

\* every validated field at its lowest / highest accepted value
AtMinCase ==
    [ph |-> Num(PH_MIN), pco2 |-> Num(PCO2_MIN), na |-> Num(NA_MIN),
     cl |-> Num(CL_MIN), hco3 |-> Absent, be |-> Absent, k |-> Num(K_MIN),
     ca |-> Num(CA_MIN), mg |-> Num(MG_MIN), lactate |-> Num(LACTATE_MIN),
     albumin_gl |-> Num(ALBUMIN_MIN_GL), po4 |-> Num(PO4_MIN)]

AtMaxCase ==
    [ph |-> Num(PH_MAX), pco2 |-> Num(PCO2_MAX), na |-> Num(NA_MAX),
     cl |-> Num(CL_MAX), hco3 |-> Absent, be |-> Absent, k |-> Num(K_MAX),
     ca |-> Num(CA_MAX), mg |-> Num(MG_MAX), lactate |-> Num(LACTATE_MAX),
     albumin_gl |-> Num(ALBUMIN_MAX_GL), po4 |-> Num(PO4_MAX)]

\* how many fields of a record deviate from the normal case at once
MaxDeviations == 2

\* the deviations of one field: a blank cell, an absent column, values just
\* outside the accepted range
Deviations ==
    [ph |-> <<Absent, None, NaN, Num(PH_MIN - 1), Num(PH_MAX + 1)>>,
     pco2 |-> <<Absent, NaN, Num(PCO2_MIN - 1), Num(PCO2_MAX + 1)>>,
     na |-> <<Absent, NaN, Num(NA_MIN - 1), Num(NA_MAX + 1)>>,
     cl |-> <<Absent, None, NaN, Num(CL_MIN - 1), Num(CL_MAX + 1)>>,
     k |-> <<Num(K_MIN - 1), Num(K_MAX + 1)>>,
     ca |-> <<Num(CA_MIN - 1), Num(CA_MAX + 1)>>,
     mg |-> <<Num(MG_MIN - 1), Num(MG_MAX + 1)>>,
     lactate |-> <<Num(LACTATE_MIN - 1), Num(LACTATE_MAX + 1)>>,
     albumin_gl |-> <<Num(ALBUMIN_MIN_GL - 1), Num(ALBUMIN_MAX_GL + 1)>>,
     po4 |-> <<Num(PO4_MIN - 1), Num(PO4_MAX + 1)>>]

\* records that deviate from the normal case in at most MaxDeviations fields
DeviantAssignments ==
    UNION { { [key \in MeasureKeys |->
                 IF key \in S THEN Deviations[key][f[key]] ELSE NormalCase[key]]
              : f \in { g \in [S -> 1..5] : \A key \in S : g[key] <= Len(Deviations[key]) } }
            : S \in { T \in SUBSET (DOMAIN Deviations) : Cardinality(T) <= MaxDeviations } }

\* records with any subset of the optional measurements absent
AbsenceAssignments(case) ==
    { [key \in MeasureKeys |-> IF key \in S THEN Absent ELSE case[key]]
      : S \in SUBSET OptionalKeys }

Modes == {"quick", "advanced"}

\* a lactic acidosis with low albumin, and a chloride-depletion alkalosis
LacticCase ==
    [ph |-> Num(725), pco2 |-> Num(280), na |-> Num(1380), cl |-> Num(1020),
     hco3 |-> Absent, be |-> Absent, k |-> Num(48), ca |-> Num(110),
     mg |-> Num(80), lactate |-> Num(80), albumin_gl |-> Num(250), po4 |-> Num(15)]

AlkalosisCase ==
    [ph |-> Num(750), pco2 |-> Num(480), na |-> Num(1400), cl |-> Num(900),
     hco3 |-> Absent, be |-> Absent, k |-> Num(30), ca |-> Num(120),
     mg |-> Num(90), lactate |-> Num(0), albumin_gl |-> Num(420), po4 |-> Num(12)]

Cases == {NormalCase, LacticCase, AlkalosisCase, AtMinCase, AtMaxCase}

\* manually entered BE values range over -MaxManualBE .. MaxManualBE (tenths)
MaxManualBE == 40

ManualHco3 == {Absent, Num(0), Num(218), Num(219), Num(239), Num(260)}

ManualAssignments ==
    { [NormalCase EXCEPT !.hco3 = h, !.be = b]
      : h \in ManualHco3,
        b \in {Absent} \cup { Num(x) : x \in (0 - MaxManualBE)..MaxManualBE } }

\* scenarios of the repository's tests: a metabolic alkalosis with appropriate
\* respiratory compensation, a lactate-explained acidosis with low pCO2
\* (test_regression.py), and the lactic acidosis of test_core.py
CompensatedAlkalosisCase ==
    [ph |-> Num(750), pco2 |-> Num(500), na |-> Num(1380), cl |-> Num(880),
     hco3 |-> Num(380), be |-> Num(120), k |-> Absent, ca |-> Absent,
     mg |-> Absent, lactate |-> Absent, albumin_gl |-> Absent, po4 |-> Absent]

LactateExplainedCase ==
    [ph |-> Num(733), pco2 |-> Num(300), na |-> Num(1400), cl |-> Num(1020),
     hco3 |-> Num(200), be |-> Num(-47), k |-> Absent, ca |-> Absent,
     mg |-> Absent, lactate |-> Num(66), albumin_gl |-> Num(400), po4 |-> Absent]

LacticQuickCase ==
    [ph |-> Num(725), pco2 |-> Num(280), na |-> Num(1400), cl |-> Num(1000),
     hco3 |-> Absent, be |-> Absent, k |-> Absent, ca |-> Absent,
     mg |-> Absent, lactate |-> Num(80), albumin_gl |-> Num(400), po4 |-> Absent]

\* the normal blood gas of test_core.py: the normal case without K, Ca, Mg, PO4
NormalQuickCase ==
    [NormalCase EXCEPT !.k = Absent, !.ca = Absent, !.mg = Absent, !.po4 = Absent]

ScenarioAssignments ==
    {CompensatedAlkalosisCase, LactateExplainedCase, LacticQuickCase, NormalQuickCase}

(***************************************************************************)
(* The state machine: a record enters by one of the three paths the        *)
(* repository has (normalize_input, dict_to_input, the StewartInput        *)
(* constructor), is analysed, exported and imported again.                 *)
(***************************************************************************)
Init ==
    /\ \E assign \in DeviantAssignments \cup ManualAssignments \cup ScenarioAssignments
                     \cup UNION { AbsenceAssignments(case) : case \in Cases } :
         \E is_bd \in BOOLEAN :
            /\ (is_bd => assign["be"] # Absent)
            /\ rec = Record(assign, is_bd)
    /\ mode = "quick"
    /\ inp = None /\ bval = None /\ out = None /\ val = None
    /\ d = None /\ inp2 = None /\ call = None /\ ret = None
    /\ pc = "record"

\* validation.py normalize_input, as API callers and tests use it
NormalizeInput ==
    /\ pc = "record"
    /\ LET r == normalize_input(rec, mode)
       IN  /\ inp' = r[1]
           /\ bval' = Num(r[2])
           /\ pc' = IF IsNone(r[1]) THEN "rejected" ELSE "input"
    /\ UNCHANGED <<rec, mode, out, val, d, inp2, call, ret>>

\* core.py dict_to_input on a CSV row (app.py batch path)
DictToInput ==
    /\ pc = "record"
    /\ IF dict_to_input_raises(rec)
         THEN inp' = None /\ pc' = "raised"
         ELSE inp' = Num(dict_to_input(rec)) /\ pc' = "input"
    /\ UNCHANGED <<rec, mode, bval, out, val, d, inp2, call, ret>>

\* StewartInput(...) built from the fields of the form (app.py); the form
\* always supplies the four required fields
Construct ==
    /\ pc = "record"
    /\ \A key \in RequiredKeys : key \in DOMAIN rec /\ ~IsNone(rec[key])
    /\ inp' = Num([ph |-> rec["ph"], pco2 |-> rec["pco2"], na |-> rec["na"],
                   cl |-> rec["cl"], hco3 |-> Get(rec, "hco3"),
                   be |-> Get(rec, "be"), k |-> Get(rec, "k"),
                   ca |-> Get(rec, "ca"), mg |-> Get(rec, "mg"),
                   lactate |-> Get(rec, "lactate"),
                   albumin_gl |-> Get(rec, "albumin_gl"),
                   po4 |-> Get(rec, "po4"),
                   is_be_base_deficit |-> "is_base_deficit" \in DOMAIN rec])
    /\ pc' = "input"
    /\ UNCHANGED <<rec, mode, bval, out, val, d, inp2, call, ret>>

\* core.py analyze_stewart(inp, mode)
AnalyzeStewart ==
    /\ pc = "input"
    /\ \E m \in Modes :
         /\ mode' = m
         /\ IF analyze_stewart_raises(V(inp))
              THEN /\ pc' = "raised"
                   /\ UNCHANGED <<out, val>>
              ELSE LET r == analyze_stewart(V(inp), m)
                   IN  /\ out' = Num(r[1])
                       /\ val' = Num(r[2])
                       /\ pc' = "analyzed"
    /\ UNCHANGED <<rec, inp, bval, d, inp2, call, ret>>

\* core.py output_to_dict; app.py exports the rows whose validation passed
OutputToDict ==
    /\ pc = "analyzed"
    /\ V(val).is_valid
    /\ d' = Num(output_to_dict(V(inp), V(out)))
    /\ pc' = "exported"
    /\ UNCHANGED <<rec, mode, inp, bval, out, val, inp2, call, ret>>

\* core.py dict_to_input on an exported row
Reimport ==
    /\ pc = "exported"
    /\ inp2' = Num(dict_to_input(V(d)))
    /\ pc' = "reimported"
    /\ UNCHANGED <<rec, mode, inp, bval, out, val, d, call, ret>>

Next ==
    \/ NormalizeInput
    \/ DictToInput
    \/ Construct
    \/ AnalyzeStewart
    \/ OutputToDict
    \/ Reimport

Spec == Init /\ [][Next]_vars

(***************************************************************************)
(* Claims                                                                  *)
(***************************************************************************)
\* the accepted range of every validated field
Range ==
    [ph |-> <<PH_MIN, PH_MAX>>, pco2 |-> <<PCO2_MIN, PCO2_MAX>>,
     na |-> <<NA_MIN, NA_MAX>>, cl |-> <<CL_MIN, CL_MAX>>,
     k |-> <<K_MIN, K_MAX>>, ca |-> <<CA_MIN, CA_MAX>>,
     mg |-> <<MG_MIN, MG_MAX>>, lactate |-> <<LACTATE_MIN, LACTATE_MAX>>,
     albumin_gl |-> <<ALBUMIN_MIN_GL, ALBUMIN_MAX_GL>>,
     po4 |-> <<PO4_MIN, PO4_MAX>>]

\* the key of the message of a violated field
ErrorKey ==
    [ph |-> "ph_out_of_range", pco2 |-> "pco2_out_of_range",
     na |-> "na_out_of_range", cl |-> "cl_out_of_range",
     k |-> "k_out_of_range", ca |-> "ca_out_of_range",
     mg |-> "mg_out_of_range", lactate |-> "lactate_out_of_range",
     albumin_gl |-> "albumin_gl_out_of_range", po4 |-> "po4_out_of_range"]

InRange(i, f) == Between(Range[f][1], i[f], Range[f][2])

\* the fields of an input that violate their range: a required field that
\* is not a number inside it, an optional field that is present and outside
ViolatedFields(i) ==
    { f \in RequiredKeys : ~InRange(i, f) }
    \cup { f \in OptionalKeys : ~IsNone(i[f]) /\ ~InRange(i, f) }

\* no derived value of an output has been computed: numbers are 0,
\* optional values None, texts and lists empty, SIG reliability "unknown"
NothingDerived(o) ==
    /\ o.hco3_calculated = 0 /\ o.hco3_used = 0 /\ o.hco3_source = ""
    /\ o.be_calculated = 0 /\ o.be_used = 0 /\ o.be_source = ""
    /\ o.sid_values.sid_simple = 0 /\ o.sid_values.sid_simple_status = ""
    /\ IsNone(o.sid_values.sid_basic) /\ o.sid_values.sid_basic_status = ""
    /\ IsNone(o.sid_values.sid_full) /\ o.sid_values.sid_full_status = ""
    /\ o.sid_values.sid_full_missing = << >>
    /\ IsNone(o.sid_effective) /\ IsNone(o.sig) /\ o.sig_reliability = "unknown"
    /\ IsNone(o.atot)
    /\ o.sid_effect = 0 /\ IsNone(o.albumin_effect) /\ IsNone(o.lactate_effect)
    /\ IsNone(o.residual_effect) /\ o.respiratory_effect = 0
    /\ o.anion_gap = 0 /\ IsNone(o.anion_gap_corrected)
    /\ IsNone(o.expected_pco2) /\ IsNone(o.expected_hco3)
    /\ o.compensation_status = "" /\ IsNone(o.observed_expected_diff)
    /\ IsNone(o.mechanism_analysis) /\ IsNone(o.headline)
    /\ IsNone(o.dominant_disorder) /\ o.disorder_components = << >>
    /\ o.missing_params = << >> /\ o.assumed_params = << >>
    /\ o.warnings = << >>

\* C1: an input that fails validation never makes analyze_stewart raise; the
\* result is invalid, its errors are exactly one message per violated field,
\* the output's only flag is VALIDATION_FAILED and no derived value has been
\* computed.
C1_RejectionIsStructured ==
    /\ (pc = "input" => ~analyze_stewart_raises(V(inp)))
    /\ (pc \in {"analyzed", "exported", "reimported"} /\ ~V(val).is_valid =>
          LET errors == V(val).errors
              violated == ViolatedFields(V(inp))
          IN  /\ violated # {}
              /\ Len(errors) = Cardinality(violated)
              /\ { errors[n] : n \in DOMAIN errors } = { ErrorKey[f] : f \in violated }
              /\ V(out).flags = <<"VALIDATION_FAILED">>
              /\ NothingDerived(V(out)))

\* a rejected analysis of a blank pH cell and a potassium above its range
C1_Witness ==
    /\ pc = "analyzed" /\ ~V(val).is_valid
    /\ IsNaN(V(inp).ph) /\ V(inp).k = Num(K_MAX + 1)
    /\ Len(V(val).errors) = 2

\* the required fields that are absent from the record
AbsentRequired == RequiredKeys \ DOMAIN rec

\* C2: when a required field is absent from the record, normalize_input
\* rejects it with a non-empty error list and builds no input, no input built
\* from the record carries a number for the absent field, and an analysis of
\* it is invalid with a non-empty error list and nothing derived.
C2_AbsentRequiredIsRejected ==
    AbsentRequired # {} =>
        /\ (~IsNone(bval) =>
              ~V(bval).is_valid /\ V(bval).errors # << >> /\ IsNone(inp))
        /\ (~IsNone(inp) => \A f \in AbsentRequired : ~IsNum(V(inp)[f]))
        /\ (pc = "analyzed" =>
              ~V(val).is_valid /\ V(val).errors # << >> /\ NothingDerived(V(out)))
        /\ pc \notin {"exported", "reimported"}

InputFields ==
    {"ph", "pco2", "na", "cl", "hco3", "be", "is_be_base_deficit",
     "k", "ca", "mg", "lactate", "albumin_gl", "po4"}

\* C4: the input rebuilt by dict_to_input from the exported row of a valid
\* analysis equals the analysed input on every field, the base-deficit flag
\* of BE included; absent fields stay absent and a supplied 0 stays 0.
C4_RoundTrip ==
    pc = "reimported" => \A f \in InputFields : V(inp2)[f] = V(inp)[f]

\* C5: a manual HCO3 (a manual BE, negated when it is entered as a base
\* deficit) becomes hco3_used (be_used) with source "manual"; the
\* HCO3_MISMATCH (BE_MISMATCH) flag and its warning are raised exactly when
\* the manual value is more than 2 away from the calculated one; whatever the
\* difference, an input whose validated fields are in range stays valid.
C5_ManualWinsNeverBlocks ==
    pc = "analyzed" /\ ViolatedFields(V(inp)) = {} =>
        LET i == V(inp)
            o == V(out)
        IN  /\ (~IsNone(i.hco3) =>
                  LET mismatch == Abs(V(i.hco3) - o.hco3_calculated) > 20
                  IN  /\ o.hco3_used = V(i.hco3) /\ o.hco3_source = "manual"
                      /\ (Has(o.flags, "HCO3_MISMATCH") <=> mismatch)
                      /\ (Has(o.warnings, "hco3_mismatch") <=> mismatch)
                      /\ ~Has(o.flags, "HCO3_CALCULATED")
                      /\ V(val).is_valid)
            /\ (~IsNone(i.be) =>
                  LET manual == IF i.is_be_base_deficit THEN 0 - V(i.be) ELSE V(i.be)
                      mismatch == Abs(manual - o.be_calculated) > 20
                  IN  /\ o.be_used = manual /\ o.be_source = "manual"
                      /\ (Has(o.flags, "BE_MISMATCH") <=> mismatch)
                      /\ (Has(o.warnings, "be_mismatch") <=> mismatch)
                      /\ ~Has(o.flags, "BE_CALCULATED")
                      /\ V(val).is_valid)

\* a manual HCO3 2.1 above the calculated 23.9 and a base deficit of 0.2,
\* exactly 2.0 below the BE calculated from it
C5_Witness ==
    /\ pc = "analyzed" /\ V(val).is_valid
    /\ V(inp).hco3 = Num(260) /\ V(out).hco3_calculated = 239
    /\ V(inp).be = Num(2) /\ V(inp).is_be_base_deficit
    /\ V(out).be_calculated = 18 /\ V(out).be_used = -2
    /\ Has(V(out).flags, "HCO3_MISMATCH") /\ ~Has(V(out).flags, "BE_MISMATCH")

\* C6: in both modes and for every subset of absent optional fields, a
\* valid analysis lists no assumed parameter; without lactate SID_basic and
\* the lactate effect are absent and the SID_basic status is
\* "lactate_missing"; without albumin the albumin effect, the corrected anion
\* gap and Atot are absent.
C6_NothingAssumed ==
    pc = "analyzed" /\ V(val).is_valid =>
        LET i == V(inp)
            o == V(out)
        IN  /\ o.assumed_params = << >>
            /\ (IsNone(i.lactate) =>
                  /\ IsNone(o.sid_values.sid_basic)
                  /\ o.sid_values.sid_basic_status = "lactate_missing"
                  /\ IsNone(o.lactate_effect))
            /\ (IsNone(i.albumin_gl) =>
                  /\ IsNone(o.albumin_effect)
                  /\ IsNone(o.anion_gap_corrected)
                  /\ IsNone(o.atot))

\* an advanced analysis of the lactic acidosis case with every optional
\* measurement absent
C6_Witness ==
    /\ pc = "analyzed" /\ V(val).is_valid /\ mode = "advanced"
    /\ V(inp).ph = Num(725)
    /\ \A f \in OptionalKeys : IsNone(V(inp)[f])
    /\ V(out).sid_values.sid_basic_status = "lactate_missing"
    /\ IsNone(V(out).atot)

SigFlags == {"SIG_UNDERESTIMATED", "SIG_UNRELIABLE", "SIG_APPROXIMATE"}

SigWarnings == {"sig_no_lactate", "sig_unreliable", "sig_approximate"}

\* the SIG_* flags of an output, with their multiplicity
SigFlagPositions(o) == { n \in DOMAIN o.flags : o.flags[n] \in SigFlags }

\* C7: in an advanced analysis the SIG reliability is "underestimated"
\* without lactate; else "unreliable" without albumin; else "approximate"
\* without Ca or Mg; else "reliable" with no SIG warning.  The output carries
\* the one matching SIG_* flag (none when reliable) and never two of them; a
\* quick analysis assesses no reliability and carries no SIG_* flag.
C7_SigReliabilityPriority ==
    pc = "analyzed" /\ V(val).is_valid =>
        LET i == V(inp)
            o == V(out)
            sigflags == { o.flags[n] : n \in SigFlagPositions(o) }
            sigwarnings == { o.warnings[n] : n \in DOMAIN o.warnings } \cap SigWarnings
        IN  /\ Cardinality(SigFlagPositions(o)) <= 1
            /\ (mode = "quick" => o.sig_reliability = "unknown" /\ sigflags = {})
            /\ (mode = "advanced" =>
                  /\ (IsNone(i.lactate) =>
                        /\ o.sig_reliability = "underestimated"
                        /\ sigflags = {"SIG_UNDERESTIMATED"}
                        /\ sigwarnings = {"sig_no_lactate"})
                  /\ (~IsNone(i.lactate) /\ IsNone(i.albumin_gl) =>
                        /\ o.sig_reliability = "unreliable"
                        /\ sigflags = {"SIG_UNRELIABLE"}
                        /\ sigwarnings = {"sig_unreliable"})
                  /\ (~IsNone(i.lactate) /\ ~IsNone(i.albumin_gl)
                        /\ (IsNone(i.ca) \/ IsNone(i.mg)) =>
                        /\ o.sig_reliability = "approximate"
                        /\ sigflags = {"SIG_APPROXIMATE"}
                        /\ sigwarnings = {"sig_approximate"})
                  /\ (~IsNone(i.lactate) /\ ~IsNone(i.albumin_gl)
                        /\ ~IsNone(i.ca) /\ ~IsNone(i.mg) =>
                        /\ o.sig_reliability = "reliable"
                        /\ sigflags = {} /\ sigwarnings = {}))

\* an advanced analysis with lactate measured and albumin, Ca and Mg absent:
\* the missing albumin decides
C7_Witness ==
    /\ pc = "analyzed" /\ V(val).is_valid /\ mode = "advanced"
    /\ ~IsNone(V(inp).lactate) /\ IsNone(V(inp).albumin_gl)
    /\ IsNone(V(inp).ca) /\ IsNone(V(inp).mg)
    /\ V(out).sig_reliability = "unreliable"
    /\ Has(V(out).flags, "SIG_UNRELIABLE")

(***************************************************************************)
(* Direct calls of the pure functions of core.py: call holds the           *)
(* arguments, ret the returned value.                                      *)
(***************************************************************************)
pipeline == <<rec, mode, inp, bval, out, val, d, inp2>>

NoPipeline ==
    /\ rec = << >> /\ mode = "quick"
    /\ inp = None /\ bval = None /\ out = None /\ val = None
    /\ d = None /\ inp2 = None

SidFullParams == {"k", "ca", "mg", "lactate"}

\* calculate_sid_full on the electrolytes of a case, any subset of
\* k, ca, mg, lactate absent
InitSidFull ==
    /\ NoPipeline
    /\ \E case \in Cases : \E S \in SUBSET SidFullParams :
         call = Num([f \in {"na", "cl"} \cup SidFullParams |->
                        IF f \in S THEN None ELSE case[f]])
    /\ ret = None
    /\ pc = "sid_full_args"

SidFullResult(args, before) ==
    LET r == calculate_sid_full(V(args.na), V(args.cl), args.k, args.ca,
                                args.mg, args.lactate)
    IN  [sid_full |-> r[1], status |-> r[2], missing |-> r[3], before |-> before]

CallSidFull ==
    /\ pc = "sid_full_args"
    /\ ret' = Num(SidFullResult(V(call), ""))
    /\ pc' = "sid_full_done"
    /\ UNCHANGED <<call, pipeline>>

\* the same call with one more parameter absent; the earlier status is kept
CallSidFullWithout ==
    /\ pc = "sid_full_done"
    /\ \E f \in SidFullParams :
         /\ ~IsNone(V(call)[f])
         /\ call' = Num([V(call) EXCEPT ![f] = None])
         /\ ret' = Num(SidFullResult([V(call) EXCEPT ![f] = None], V(ret).status))
    /\ UNCHANGED <<pc, pipeline>>

NextSidFull ==
    \/ CallSidFull
    \/ CallSidFullWithout

SpecSidFull == InitSidFull /\ [][NextSidFull]_vars

\* the name calculate_sid_full reports for a parameter
SidFullName == [k |-> "K+", ca |-> "Ca2+", mg |-> "Mg2+", lactate |-> "Laktat"]

StatusRank == [complete |-> 0, partial |-> 1, incomplete |-> 2]

\* C8: calculate_sid_full reports as missing exactly the absent members of
\* {k, ca, mg, lactate}, each once; the status is "complete" iff none is
\* missing, "partial" iff 1 or 2 are, "incomplete" iff 3 or 4 are; making one
\* more parameter absent never improves the status.
C8_SidFullCompleteness ==
    pc = "sid_full_done" =>
        LET r == V(ret)
            absent == { f \in SidFullParams : IsNone(V(call)[f]) }
            n == Cardinality(absent)
        IN  /\ { r.missing[j] : j \in DOMAIN r.missing } = { SidFullName[f] : f \in absent }
            /\ Len(r.missing) = n
            /\ (r.status = "complete" <=> n = 0)
            /\ (r.status = "partial" <=> n \in {1, 2})
            /\ (r.status = "incomplete" <=> n \in {3, 4})
            /\ (r.before # "" => StatusRank[r.status] >= StatusRank[r.before])

\* a third parameter has been made absent: "partial" became "incomplete"
C8_Witness ==
    /\ pc = "sid_full_done"
    /\ V(ret).before = "partial" /\ V(ret).status = "incomplete"
    /\ Len(V(ret).missing) = 3

\* how far beyond a threshold, in tenths, the arguments of a direct call lie
Margin == 1

\* a threshold, and the values Margin below and above it
Around(t) == {t - Margin, t, t + Margin}

\* an optional argument: absent or around a threshold
OptAround(t) == {None} \cup { Num(x) : x \in Around(t) }

InitDisorder ==
    /\ NoPipeline
    /\ \E ph \in {730, 740} :
       \E pco2 \in Around(350) \cup Around(450) :
       \E sid_effect \in Around(-20) \cup Around(20) :
       \E albumin_effect \in OptAround(20) :
       \E lactate \in OptAround(20) :
       \E residual_effect \in OptAround(-20) :
       \E sig \in OptAround(20) :
         call = Num([ph |-> ph, pco2 |-> pco2, be |-> 0, sid_effect |-> sid_effect,
                     albumin_effect |-> albumin_effect, lactate |-> lactate,
                     residual_effect |-> residual_effect, sig |-> sig])
    /\ ret = None
    /\ pc = "disorder_args"

CallDetermineDominantDisorder ==
    /\ pc = "disorder_args"
    /\ LET a == V(call)
           r == determine_dominant_disorder(a.ph, a.pco2, a.be, a.sid_effect,
                                            a.albumin_effect, a.lactate,
                                            a.residual_effect, a.sig)
       IN  ret' = Num([dominant |-> r[1], components |-> r[2]])
    /\ pc' = "disorder_done"
    /\ UNCHANGED <<call, pipeline>>

NextDisorder == CallDetermineDominantDisorder

SpecDisorder == InitDisorder /\ [][NextDisorder]_vars

DetectionOrder ==
    <<"respiratory_acidosis", "respiratory_alkalosis", "hyperchloremic_acidosis",
      "hypochloremic_alkalosis", "hypoalbuminemic_alkalosis", "lactic_acidosis",
      "hagma">>

\* the condition the claim gives for every flag
Raised(a) ==
    [respiratory_acidosis |-> a.pco2 > 450,
     respiratory_alkalosis |-> a.pco2 < 350,
     hyperchloremic_acidosis |-> a.sid_effect < -20,
     hypochloremic_alkalosis |-> a.sid_effect > 20,
     hypoalbuminemic_alkalosis |-> IsNum(a.albumin_effect) /\ V(a.albumin_effect) > 20,
     lactic_acidosis |-> IsNum(a.lactate) /\ V(a.lactate) > 20,
     hagma |-> \/ (IsNum(a.residual_effect) /\ V(a.residual_effect) < -20)
               \/ (IsNum(a.sig) /\ V(a.sig) > 20)]

InitCompensation ==
    /\ NoPipeline
    /\ \E ph \in Around(735) \cup Around(745) :
       \E pco2 \in (280 - Margin)..(460 + Margin) \cup {200, 600} :
       \E hco3 \in {150, 155, 170, 200, 240, 262, 285, 330} :
       \E be \in Around(-20) \cup Around(20) :
         call = Num([ph |-> ph, pco2 |-> pco2, hco3 |-> hco3, be |-> be])
    /\ ret = None
    /\ pc = "compensation_args"

CallAssessCompensation ==
    /\ pc = "compensation_args"
    /\ LET a == V(call)
       IN  ret' = Num(assess_compensation(a.ph, a.pco2, a.hco3, a.be))
    /\ pc' = "compensation_done"
    /\ UNCHANGED <<call, pipeline>>

NextCompensation == CallAssessCompensation

SpecCompensation == InitCompensation /\ [][NextCompensation]_vars

\* the status of a metabolic branch judged against an expected pCO2
MetabolicStatusAgrees(r, pco2, expected) ==
    /\ (r.compensation_status = "Uygun respiratuvar kompanzasyon"
          <=> Abs(pco2 - expected) <= 20)
    /\ (r.compensation_status = "Ek respiratuvar alkaloz" <=> pco2 - expected < -20)
    /\ (r.compensation_status = "Ek respiratuvar asidoz" <=> pco2 - expected > 20)

\* the branch conditions of the claim, on arguments in 1/100 (pH) and 1/10
MetabolicAcidosisBranch(a) == a.be < -20 /\ a.ph <= 745
MetabolicAlkalosisBranch(a) == a.be > 20 /\ a.ph >= 735
RespiratoryAcidosisBranch(a) == a.pco2 > 450 /\ a.ph < 735
RespiratoryAlkalosisBranch(a) == a.pco2 < 350 /\ a.ph > 745

\* what C10 says of the respiratory branches and of the last branch
RespiratoryBranchesAgree(a, r) ==
    /\ (~MetabolicAcidosisBranch(a) /\ ~MetabolicAlkalosisBranch(a)
          /\ RespiratoryAcidosisBranch(a) =>
          /\ IsNone(r.expected_pco2) /\ IsNum(r.expected_hco3)
          /\ r.compensation_status \in {"Akut respiratuvar asidoz",
                "Kronik respiratuvar asidoz", "Subakut respiratuvar asidoz"})
    /\ (~MetabolicAcidosisBranch(a) /\ ~MetabolicAlkalosisBranch(a)
          /\ ~RespiratoryAcidosisBranch(a) /\ RespiratoryAlkalosisBranch(a) =>
          /\ IsNone(r.expected_pco2) /\ IsNum(r.expected_hco3)
          /\ r.compensation_status \in {"Akut respiratuvar alkaloz",
                "Kronik respiratuvar alkaloz", "Subakut respiratuvar alkaloz"})
    /\ (~MetabolicAcidosisBranch(a) /\ ~MetabolicAlkalosisBranch(a)
          /\ ~RespiratoryAcidosisBranch(a) /\ ~RespiratoryAlkalosisBranch(a) =>
          /\ IsNone(r.expected_pco2) /\ IsNone(r.expected_hco3)
          /\ r.compensation_status = "Belirgin primer bozukluk yok")

RespiratoryTags == {"respiratory_acidosis", "respiratory_alkalosis"}

\* the disorder components that are not respiratory, in detection order
MetabolicComponents(o) ==
    SelectSeq(o.disorder_components, LAMBDA tag : tag \notin RespiratoryTags)

\* C11: when assess_compensation reports appropriate respiratory compensation
\* for a primary metabolic disorder, the respiratory change is not counted as
\* a disorder of its own: with one metabolic component the dominant disorder
\* is that component's tag, never mixed_disorder; and the lactate-explained
\* acidosis with low pCO2 of the regression suite is lactic_acidosis.
C11_CompensationIsNotADisorder ==
    (pc = "analyzed" /\ V(val).is_valid) =>
        /\ (V(out).compensation_status = "Uygun respiratuvar kompanzasyon"
             /\ Len(MetabolicComponents(V(out))) = 1)
            => V(out).dominant_disorder = Num(MetabolicComponents(V(out))[1])
        /\ (rec = Record(LactateExplainedCase, FALSE) /\ mode = "quick")
            => V(out).dominant_disorder = Num("lactic_acidosis")

\* determine_metabolic_dominance on the mechanism list analyze_mechanisms
\* builds from component effects around its thresholds (0.5 and 2 mEq/L),
\* with BE around -2 and 2 and beyond
InitDominance ==
    /\ NoPipeline
    /\ \E be \in {-100, -40, -21, -20, 0, 19, 20, 21, 40, 100} :
       \E sid_effect \in {-100, -50, -21, -20, 0, 21, 60} :
       \E lactate_effect \in {None, Num(-5), Num(-6), Num(-20), Num(-50)} :
       \E albumin_effect \in {None, Num(21), Num(60), Num(-21)} :
       \E residual_effect \in {None, Num(-50), Num(-21), Num(21)} :
       \E sig \in {None, Num(SIG_THRESHOLD + 1)} :
         call = Num([be |-> be, sig |-> sig,
                     mechanisms |-> MechanismInputs(sid_effect, albumin_effect,
                                                    lactate_effect, residual_effect)])
    /\ ret = None
    /\ pc = "dominance_args"

CallDetermineMetabolicDominance ==
    /\ pc = "dominance_args"
    /\ ret' = Num([result |-> determine_metabolic_dominance(V(call), << >>),
                   before |-> << >>, increased |-> ""])
    /\ pc' = "dominance_done"
    /\ UNCHANGED <<call, pipeline>>

\* the same call with the magnitude of one mechanism increased, BE and the
\* other mechanisms unchanged; the earlier ranking is kept for comparison
CallWithIncreasedMechanism ==
    /\ pc = "dominance_done"
    /\ \E n \in DOMAIN V(call).mechanisms : \E delta \in {1, 30} :
         LET m == V(call).mechanisms[n]
             effect == IF m.effect < 0 THEN m.effect - delta ELSE m.effect + delta
             args == [V(call) EXCEPT !.mechanisms[n].effect = effect]
         IN  /\ call' = Num(args)
             /\ ret' = Num([result |-> determine_metabolic_dominance(args, << >>),
                            before |-> V(ret).result.all_mechanisms,
                            increased |-> m.identifier])
    /\ pc' = "dominance_increased"
    /\ UNCHANGED pipeline

NextDominance ==
    \/ CallDetermineMetabolicDominance
    \/ CallWithIncreasedMechanism

SpecDominance == InitDominance /\ [][NextDominance]_vars

\* C12: in every ranking determine_metabolic_dominance produces, at most one
\* mechanism of all_mechanisms carries the level "dominant".
C12_AtMostOneDominantLevel ==
    pc \in {"dominance_done", "dominance_increased"} =>
        Len(WithLevel(V(ret).result.all_mechanisms, "dominant")) <= 1

\* position of a mechanism's level in the order
\* (not listed) < minimal < contributing < significant < dominant
LevelRank(mcs, identifier) ==
    LET mc == FirstWhere(mcs, "identifier", identifier)
    IN  IF IsNone(mc) THEN 0
        ELSE [minimal |-> 1, contributing |-> 2, significant |-> 3,
              dominant |-> 4][V(mc).level]

\* C13: for a fixed BE and fixed other mechanisms, increasing the magnitude of
\* one mechanism never lowers its level in the order
\* (not listed) < minimal < contributing < significant < dominant.
C13_DominanceIsMonotonic ==
    pc = "dominance_increased" =>
        LevelRank(V(ret).result.all_mechanisms, V(ret).increased)
            >= LevelRank(V(ret).before, V(ret).increased)

\* a lactate effect raised from 2.0 to 5.0 mEq/L against a BE of -10 moves
\* from contributing to dominant
C13_Witness ==
    /\ pc = "dominance_increased"
    /\ V(ret).increased = "lactate"
    /\ V(call).be = -100
    /\ LevelRank(V(ret).before, "lactate") = 2
    /\ LevelRank(V(ret).result.all_mechanisms, "lactate") = 4

\* C14: in quick mode sid_effective, sig and atot are absent and
\* sig_reliability is "unknown", while sid_effect, residual_effect and the
\* anion gap are produced; in advanced mode sid_effective and sig are present
\* with sig = sid_full - sid_effective, and atot is present iff albumin is.
C14_ModeFlag ==
    (pc = "analyzed" /\ V(val).is_valid) =>
        LET i == V(inp)
            o == V(out)
        IN  /\ mode = "quick" =>
                  /\ IsNone(o.sid_effective) /\ IsNone(o.sig) /\ IsNone(o.atot)
                  /\ o.sig_reliability = "unknown"
            /\ o.sid_effect = (V(i.na) - V(i.cl)) - SID_NORMAL_SIMPLE
            /\ IsNum(o.residual_effect)
            /\ V(o.residual_effect)
                 = o.be_used - o.sid_effect
                   - (IF IsNone(o.albumin_effect) THEN 0 ELSE V(o.albumin_effect))
                   - (IF IsNone(o.lactate_effect) THEN 0 ELSE V(o.lactate_effect))
            /\ o.anion_gap = V(i.na) - V(i.cl) - o.hco3_used
            /\ mode = "advanced" =>
                  /\ IsNum(o.sid_effective) /\ IsNum(o.sig)
                  /\ IsNum(o.sid_values.sid_full)
                  /\ V(o.sig) = V(o.sid_values.sid_full) - V(o.sid_effective)
                  /\ IsNum(o.atot) <=> IsNum(i.albumin_gl)

\* an advanced analysis without albumin: SIG is there, Atot is not
C14_Witness ==
    /\ pc = "analyzed" /\ V(val).is_valid /\ mode = "advanced"
    /\ IsNone(V(inp).albumin_gl) /\ IsNum(V(inp).po4)
    /\ IsNum(V(out).sig) /\ IsNone(V(out).atot)
    /\ Len(V(out).sid_values.sid_full_missing) > 0

\* C15: the normal blood gas (pH 7.40, pCO2 40, Na 140, Cl 100, lactate 1.0,
\* albumin 40 g/L, no manual HCO3 / BE) analysed in quick mode has
\* sid_simple = 40.0, dominant_disorder "normal" and no disorder component.
C15_NormalCaseIsNormal ==
    (pc = "analyzed" /\ rec = Record(NormalQuickCase, FALSE) /\ mode = "quick") =>
        /\ V(val).is_valid
        /\ V(out).sid_values.sid_simple = 400
        /\ V(out).dominant_disorder = Num("normal")
        /\ V(out).disorder_components = << >>

\* the analysis of the lactic acidosis of test_core.py (pH 7.25, pCO2 28,
\* Na 140, Cl 100, lactate 8, albumin 40 g/L, no manual HCO3 / BE) is done
LacticQuickAnalyzed ==
    pc = "analyzed" /\ rec = Record(LacticQuickCase, FALSE)

\* C16 as stated: lactate_effect is -8.0, the lactate mechanism is the
\* dominant mechanism of the decomposition, and "lactic_acidosis" is in
\* disorder_components.
C16_LactateDominates ==
    LacticQuickAnalyzed =>
        /\ V(out).lactate_effect = Num(-80)
        /\ ~IsNone(V(V(out).mechanism_analysis).dominant_mechanism)
        /\ V(V(V(out).mechanism_analysis).dominant_mechanism).identifier = "lactate"
        /\ Has(V(out).disorder_components, "lactic_acidosis")

\* C16, amended: lactate_effect is -8.0 and "lactic_acidosis" is in
\* disorder_components; with the calculated BE of -16.0 the residual effect is
\* -10.5, so the unmeasured-anion mechanism is the dominant one (56.8 %) and
\* the lactate mechanism is ranked significant (43.2 %).
C16_LactateIsSignificant ==
    LacticQuickAnalyzed =>
        LET ma == V(V(out).mechanism_analysis)
        IN  /\ V(out).lactate_effect = Num(-80)
            /\ V(out).be_used = -160 /\ V(out).residual_effect = Num(-105)
            /\ Has(V(out).disorder_components, "lactic_acidosis")
            /\ ~IsNone(ma.dominant_mechanism)
            /\ V(ma.dominant_mechanism).identifier = "unmeasured"
            /\ V(ma.dominant_mechanism).contribution_percent = 568
            /\ Len(ma.significant_mechanisms) = 1
            /\ ma.significant_mechanisms[1].identifier = "lactate"
            /\ ma.significant_mechanisms[1].contribution_percent = 432

C16_Witness ==
    /\ LacticQuickAnalyzed /\ mode = "quick" /\ V(val).is_valid
    /\ V(out).hco3_source = "calculated" /\ V(out).be_source = "calculated"
    /\ Len(V(V(out).mechanism_analysis).all_mechanisms) = 2

(***************************************************************************)
(* CSV rows through validate_csv_row and, when valid, into the engine:     *)
(* sodium and chloride lie around the thresholds of the swap suspicion.    *)
(***************************************************************************)
InitCsvRow ==
    /\ NoPipeline
    /\ \E ph \in {None, Num(690), Num(740)} :
       \E pco2 \in {Num(150), Num(400)} :
       \E na \in {None, NaN, Num(-1400), Num(790), Num(949), Num(950),
                  Num(999), Num(1000), Num(1100), Num(1101), Num(1149),
                  Num(1150), Num(1210), Num(1400)} :
       \E cl \in {None, Num(1000), Num(1200), Num(1201), Num(1250),
                  Num(1251), Num(1349), Num(1350), Num(1351), Num(1400),
                  Num(1450), Num(1451), Num(2001)} :
       \E row_index \in {0, 5} :
         call = Num([row |-> [key \in {"ph", "pco2", "na", "cl"} |->
                                 CASE key = "ph" -> ph
                                   [] key = "pco2" -> pco2
                                   [] key = "na" -> na
                                   [] key = "cl" -> cl],
                     row_index |-> row_index])
    /\ ret = None
    /\ pc = "csv_row"

CallValidateCsvRow ==
    /\ pc = "csv_row"
    /\ ret' = Num(validate_csv_row(V(call).row, V(call).row_index))
    /\ pc' = "csv_validated"
    /\ UNCHANGED <<pipeline, call>>

\* the validated row goes into the engine
AnalyzeCsvRow ==
    /\ pc = "csv_validated"
    /\ V(ret).is_valid
    /\ inp' = Num(stewart_input_from_normalized(V(ret).normalized_values))
    /\ LET r == analyze_stewart(stewart_input_from_normalized(V(ret).normalized_values),
                                "quick")
       IN  out' = Num(r[1]) /\ val' = Num(r[2])
    /\ pc' = "csv_analyzed"
    /\ UNCHANGED <<rec, mode, bval, d, inp2, call, ret>>

NextCsvRow == CallValidateCsvRow \/ AnalyzeCsvRow

SpecCsvRow == InitCsvRow /\ [][NextCsvRow]_vars

\* the plain validation of the same row, without the swap suspicion
PlainValidation == validate_input_dict(sanitize_csv_row(V(call).row), "quick")

\* confidence of the swap suspicion of the row at hand
RowSuspicion ==
    analyze_na_cl_swap_suspicion(Get(sanitize_csv_row(V(call).row), "na"),
                                 Get(sanitize_csv_row(V(call).row), "cl")).confidence

\* C17: a swap suspicion of any confidence leaves the data alone: the
\* normalized sodium and chloride of validate_csv_row are the supplied ones,
\* is_valid and the number of errors are those of the plain validation, the
\* warnings of the plain validation are all kept (the suspicion only adds),
\* and the engine computes with exactly the sodium and chloride of the row.
C17_SwapSuspicionLeavesData ==
    /\ pc \in {"csv_validated", "csv_analyzed"} =>
          LET r == V(ret)
              row == V(call).row
          IN  /\ r.is_valid = PlainValidation.is_valid
              /\ Len(r.errors) = Len(PlainValidation.errors)
              /\ \A n \in DOMAIN PlainValidation.warnings :
                    Has(r.warnings, PlainValidation.warnings[n])
              /\ Len(r.warnings) >= Len(PlainValidation.warnings)
              /\ "na" \in DOMAIN r.normalized_values =>
                    r.normalized_values["na"] = row["na"]
              /\ "cl" \in DOMAIN r.normalized_values =>
                    r.normalized_values["cl"] = row["cl"]
    /\ pc = "csv_analyzed" =>
          /\ V(inp).na = V(call).row["na"]
          /\ V(inp).cl = V(call).row["cl"]
          /\ V(out).sid_values.sid_simple = V(V(call).row["na"]) - V(V(call).row["cl"])

\* a row with sodium 100 and chloride 140 (high-confidence suspicion) is
\* valid, warned about first of all, and analysed with SID = -40
C17_Witness ==
    /\ pc = "csv_analyzed"
    /\ RowSuspicion = "high"
    /\ V(ret).warnings[1] = <<"na_cl_swap", "high">>
    /\ V(call).row["na"] = Num(1000) /\ V(call).row["cl"] = Num(1400)
    /\ V(out).sid_values.sid_simple = -400

(***************************************************************************)
(* Repeated invocations of analyze_stewart in one process.  The only       *)
(* object that outlives an invocation is the module-level logger           *)
(* (logger.py), which analyze_stewart writes through                       *)
(* log_calculation_warning and never reads; every list the output carries  *)
(* is created inside the invocation.                                       *)
(***************************************************************************)

\* the records analyze_stewart hands to log_calculation_warning
LogWrites(o) ==
    (IF Has(o.flags, "SID_FULL_APPROXIMATE")
       THEN <<"sid_full_approximate">> ELSE << >>)
    \o (IF Has(o.flags, "SID_EFFECTIVE_APPROXIMATE")
          THEN <<"sid_effective_approximate">> ELSE << >>)

\* an invocation whose output lists are shared with the earlier invocations
\* instead of being created afresh
InvocationSharingLists(i, m, logged) ==
    IF analyze_stewart_raises(i)
    THEN [after |-> i, raised |-> TRUE, output |-> None, validation |-> None,
          logged |-> logged]
    ELSE LET r == analyze_stewart(i, m)
             o == [r[1] EXCEPT !.warnings = logged \o @]
         IN  [after |-> i, raised |-> FALSE, output |-> Num(o),
              validation |-> Num(r[2]), logged |-> logged \o LogWrites(r[1])]

\* one invocation with input i and mode m in a process whose logger holds
\* `logged`: the input object after the call, the result, the logger after
Invocation(i, m, logged) ==
    IF analyze_stewart_raises(i)
    THEN [after |-> i, raised |-> TRUE, output |-> None, validation |-> None,
          logged |-> logged]
    ELSE LET r == analyze_stewart(i, m)
         IN  [after |-> i, raised |-> FALSE, output |-> Num(r[1]),
              validation |-> Num(r[2]), logged |-> logged \o LogWrites(r[1])]

\* how many invocations one process makes
MaxCalls == 3

\* two input objects, built once and passed to the invocations
InitRepeat ==
    /\ NoPipeline
    /\ LET RepeatCases == {NormalCase, LacticCase, CompensatedAlkalosisCase,
                           [NormalCase EXCEPT !.na = Num(NA_MAX + 1)],
                           [NormalCase EXCEPT !.ph = None]}
       IN  \E a \in RepeatCases : \E b \in RepeatCases :
             call = Num(<<dict_to_input(Record(a, FALSE)),
                          dict_to_input(Record(b, FALSE))>>)
    /\ ret = Num([history |-> << >>, logged |-> << >>])
    /\ pc = "repeat"

\* analyze_stewart(inp, mode) on one of the two objects, in either mode
Invoke ==
    /\ pc = "repeat"
    /\ Len(V(ret).history) < MaxCalls
    /\ \E k \in 1..2 : \E m \in Modes :
         \E r \in {Invocation(V(call)[k], m, V(ret).logged)} :
           ret' = Num([history |-> Append(V(ret).history,
                                          [before |-> V(call)[k], mode |-> m,
                                           after |-> r.after, raised |-> r.raised,
                                           output |-> r.output,
                                           validation |-> r.validation]),
                       logged |-> r.logged])
    /\ UNCHANGED <<pipeline, call, pc>>

SpecRepeat == InitRepeat /\ [][Invoke]_vars

C19_AlbuminGlNotConverted ==
    (/\ pc \in {"input", "analyzed", "exported", "reimported"}
     /\ ~IsNone(bval)
     /\ V(bval).is_valid
     /\ "albumin_gl" \in DOMAIN rec
     /\ IsNum(rec["albumin_gl"])
     /\ ALBUMIN_MIN_GL <= V(rec["albumin_gl"])
     /\ V(rec["albumin_gl"]) <= ALBUMIN_MAX_GL)
    => /\ "albumin_gl" \in DOMAIN V(bval).normalized_values
       /\ V(bval).normalized_values["albumin_gl"] = rec["albumin_gl"]
       /\ V(inp).albumin_gl = rec["albumin_gl"]

\* C20: whenever the mechanism analysis of a valid input has selected a
\* dominant mechanism, the headline's dominant_mechanism is that mechanism's
\* description with its contribution percent, and the headline "Normal
\* asit-baz dengesi" appears only when no dominant mechanism exists.
C20_HeadlineNamesDominant ==
    (pc \in {"analyzed", "exported", "reimported"} /\ V(val).is_valid) =>
      LET analysis == V(V(out).mechanism_analysis)
          headline == V(V(out).headline)
      IN  /\ ~IsNone(analysis.dominant_mechanism) =>
                headline.dominant_mechanism =
                  Labelled(V(analysis.dominant_mechanism).description,
                           V(analysis.dominant_mechanism).contribution_percent)
          /\ headline.dominant_mechanism = <<"Normal asit-baz dengesi">> =>
                IsNone(analysis.dominant_mechanism)

\* the result of the call at hand, and the mechanism its loop selects first
DominanceResult == V(ret).result

FirstSelected == InitialDominant(DominanceResult.all_mechanisms)

AlkalosisLeader == FirstWhere(DominanceResult.all_mechanisms, "direction", "alkalosis")

\* C21 as stated: whenever BE >= 0 and the mechanism selected first is an
\* acidosis mechanism, the reported dominant is the top-ranked alkalosis
\* mechanism.
C21_MaskingReportsAlkalosis ==
    (/\ pc \in {"dominance_done", "dominance_increased"}
     /\ DominanceResult.total_metabolic_effect >= 0
     /\ ~IsNone(FirstSelected)
     /\ V(FirstSelected).direction = "acidosis")
    => /\ ~IsNone(DominanceResult.dominant)
       /\ V(DominanceResult.dominant).direction = "alkalosis"
       /\ DominanceResult.dominant = AlkalosisLeader

\* C21: whenever BE >= 0 and the mechanism selected first is an acidosis
\* mechanism, the reported dominant is the top-ranked alkalosis mechanism if
\* the ranking has one and nothing otherwise; so with BE >= 0 the reported
\* dominant is never an acidosis mechanism.
C21_MaskingCorrection ==
    pc \in {"dominance_done", "dominance_increased"} =>
      /\ (/\ DominanceResult.total_metabolic_effect >= 0
          /\ ~IsNone(FirstSelected)
          /\ V(FirstSelected).direction = "acidosis")
         => DominanceResult.dominant = AlkalosisLeader
      /\ DominanceResult.total_metabolic_effect >= 0 =>
            \/ IsNone(DominanceResult.dominant)
            \/ V(DominanceResult.dominant).direction = "alkalosis"

\* BE is 0, the SID effect of -10 is selected first, and the albumin effect
\* of +6 is reported instead
C21_Witness ==
    /\ pc = "dominance_done"
    /\ DominanceResult.total_metabolic_effect = 0
    /\ V(FirstSelected).identifier = "sid" /\ V(FirstSelected).direction = "acidosis"
    /\ ~IsNone(DominanceResult.dominant)
    /\ V(DominanceResult.dominant).identifier = "albumin"
    /\ V(DominanceResult.dominant).effect_meq = 60

\* max of |BE| and the totals of the direction BE points to (of both
\* directions when BE is within the threshold), from the arguments of the call
ReferenceOfCall ==
    LET be == V(call).be
        total_acidosis == TotalAcidosis(V(call).mechanisms, 1)
        total_alkalosis == TotalAlkalosis(V(call).mechanisms, 1)
    IN  IF be < -CLINICAL_SIGNIFICANCE_THRESHOLD
        THEN (IF Abs(be) >= total_acidosis THEN Abs(be) ELSE total_acidosis)
        ELSE IF be > CLINICAL_SIGNIFICANCE_THRESHOLD
        THEN (IF Abs(be) >= total_alkalosis THEN Abs(be) ELSE total_alkalosis)
        ELSE IF Abs(be) >= total_acidosis /\ Abs(be) >= total_alkalosis THEN Abs(be)
        ELSE IF total_acidosis >= total_alkalosis THEN total_acidosis
        ELSE total_alkalosis

\* C22: when total_reference is below the materiality threshold of 2 mEq/L,
\* determine_metabolic_dominance returns no dominant mechanism and no pattern
\* flag, also when SIG is above its threshold.
C22_NegligibleIsCleared ==
    (pc \in {"dominance_done", "dominance_increased"}
     /\ ReferenceOfCall < CLINICAL_SIGNIFICANCE_THRESHOLD)
    => /\ IsNone(DominanceResult.dominant)
       /\ DominanceResult.pattern_flags = << >>

\* BE is 1.9 with no material mechanism and SIG above its threshold
C22_Witness ==
    /\ pc = "dominance_done"
    /\ V(call).be = 19
    /\ ReferenceOfCall = 19
    /\ ~IsNone(V(call).sig) /\ V(V(call).sig) > SIG_THRESHOLD
    /\ DominanceResult.pattern_flags = << >>
    /\ IsNone(DominanceResult.dominant)

\* the label of a respiratory branch judged by distance: acute only if HCO3
\* is no nearer to the chronic expected value, chronic only if it is no
\* nearer to the acute one, subacute only strictly between the two bands
LabelledByNearest(status, hco3, exp_acute, exp_chronic, acute, chronic, subacute) ==
    /\ status = acute => Abs(hco3 - exp_acute) <= Abs(hco3 - exp_chronic)
    /\ status = chronic => Abs(hco3 - exp_chronic) <= Abs(hco3 - exp_acute)
    /\ status = subacute =>
          Abs(hco3 - exp_acute) > COMPENSATION_TOLERANCE
          /\ Abs(hco3 - exp_chronic) > COMPENSATION_TOLERANCE
          /\ ((exp_acute < hco3 /\ hco3 < exp_chronic)
              \/ (exp_chronic < hco3 /\ hco3 < exp_acute))

\* C23: in the respiratory-acidosis branch, and symmetrically the
\* respiratory-alkalosis branch, of assess_compensation the observed HCO3 is
\* labelled acute or chronic after the expected value it is nearer to, and
\* subacute only strictly between the two bands; an HCO3 nearer to the
\* chronic expected value than to the acute one is never labelled acute.
C23_AcuteChronicByNearest ==
    (pc = "compensation_done"
     /\ ~MetabolicAcidosisBranch(V(call)) /\ ~MetabolicAlkalosisBranch(V(call)))
    => LET a == V(call)
           r == V(ret)
       IN  /\ RespiratoryAcidosisBranch(a) =>
                 LabelledByNearest(r.compensation_status, a.hco3,
                     calculate_expected_hco3_respiratory_acidosis(a.pco2, FALSE),
                     calculate_expected_hco3_respiratory_acidosis(a.pco2, TRUE),
                     "Akut respiratuvar asidoz", "Kronik respiratuvar asidoz",
                     "Subakut respiratuvar asidoz")
           /\ (~RespiratoryAcidosisBranch(a) /\ RespiratoryAlkalosisBranch(a)) =>
                 LabelledByNearest(r.compensation_status, a.hco3,
                     calculate_expected_hco3_respiratory_alkalosis(a.pco2, FALSE),
                     calculate_expected_hco3_respiratory_alkalosis(a.pco2, TRUE),
                     "Akut respiratuvar alkaloz", "Kronik respiratuvar alkaloz",
                     "Subakut respiratuvar alkaloz")

\* C24: a record accepted by validate_input_dict, turned into a StewartInput
\* by normalize_input, is accepted by validate_input inside analyze_stewart.
C24_ValidatorsAgree ==
    (pc \in {"analyzed", "exported", "reimported"}
     /\ ~IsNone(bval) /\ V(bval).is_valid)
    => V(val).is_valid

\* the identifiers of a list of mechanisms
Identifiers(mcs) == { mcs[n].identifier : n \in DOMAIN mcs }

\* C25: the ranking buckets are disjoint: the mechanism reported as dominant
\* is in neither the significant nor the contributing list, and no mechanism
\* is in both of these lists.
C25_BucketsDisjoint ==
    pc \in {"dominance_done", "dominance_increased"} =>
      /\ ~IsNone(DominanceResult.dominant) =>
            V(DominanceResult.dominant).identifier
               \notin Identifiers(DominanceResult.significant)
                       \cup Identifiers(DominanceResult.contributing)
      /\ Identifiers(DominanceResult.significant)
            \cap Identifiers(DominanceResult.contributing) = {}

\* the reported dominant is the mechanism with this identifier
ReportedDominantIs(identifier) ==
    ~IsNone(DominanceResult.dominant)
    /\ V(DominanceResult.dominant).identifier = identifier

\* C26: the pattern flags agree with the reported dominant mechanism:
\* lactate_dominant only if it is the lactate mechanism, unmeasured_anion
\* only if it is the unmeasured mechanism, hyperchloremic_pattern only if it
\* is the SID mechanism in the acidosis direction.
C26_FlagsAgreeWithDominant ==
    pc \in {"dominance_done", "dominance_increased"} =>
      /\ Has(DominanceResult.pattern_flags, "lactate_dominant") =>
            ReportedDominantIs("lactate")
      /\ Has(DominanceResult.pattern_flags, "unmeasured_anion") =>
            ReportedDominantIs("unmeasured")
      /\ Has(DominanceResult.pattern_flags, "hyperchloremic_pattern") =>
            (ReportedDominantIs("sid")
             /\ V(DominanceResult.dominant).direction = "acidosis")

\* C27: the decomposition is exhaustive: for every valid input the SID
\* effect plus the albumin and lactate effects that are present plus the
\* residual effect equals be_used, and so does contribution.net_metabolic.
C27_DecompositionIsExhaustive ==
    (pc \in {"analyzed", "exported", "reimported"} /\ V(val).is_valid) =>
      LET o == V(out)
      IN  /\ o.sid_effect
                + (IF IsNone(o.albumin_effect) THEN 0 ELSE V(o.albumin_effect))
                + (IF IsNone(o.lactate_effect) THEN 0 ELSE V(o.lactate_effect))
                + V(o.residual_effect) = o.be_used
          /\ V(o.contribution).net_metabolic = o.be_used

\* the lactic acidosis of test_core.py: 2.0 + 0.5 - 8.0 - 10.5 = -16.0
C27_Witness ==
    /\ LacticQuickAnalyzed
    /\ V(out).sid_effect = 20 /\ V(out).albumin_effect = Num(5)
    /\ V(out).lactate_effect = Num(-80) /\ V(out).residual_effect = Num(-105)
    /\ V(out).be_used = -160
    /\ V(V(out).contribution).net_metabolic = -160

\* the assessment reports an expected counter-value
ExpectedReported(r) == ~IsNone(r.expected_pco2) \/ ~IsNone(r.expected_hco3)

\* C28 as stated: assess_compensation never reports both an expected pCO2
\* and an expected HCO3, and it reports an observed-expected difference
\* exactly when it reports an expected counter-value; both are absent only
\* for "no primary disorder".
C28_DeltaIffExpected ==
    pc = "compensation_done" =>
      LET r == V(ret)
      IN  /\ ~(~IsNone(r.expected_pco2) /\ ~IsNone(r.expected_hco3))
          /\ ~IsNone(r.observed_expected_diff) <=> ExpectedReported(r)
          /\ ~ExpectedReported(r) <=>
                r.compensation_status = "Belirgin primer bozukluk yok"

\* C28 amended: never both expected values; a difference is reported only
\* together with an expected value; an expected value comes without a
\* difference exactly in the two subacute statuses; nothing expected is
\* reported exactly for "no primary disorder".
C28_DeltaUnlessSubacute ==
    pc = "compensation_done" =>
      LET r == V(ret)
      IN  /\ ~(~IsNone(r.expected_pco2) /\ ~IsNone(r.expected_hco3))
          /\ ~IsNone(r.observed_expected_diff) => ExpectedReported(r)
          /\ (ExpectedReported(r) /\ IsNone(r.observed_expected_diff)) <=>
                r.compensation_status \in {"Subakut respiratuvar asidoz",
                                           "Subakut respiratuvar alkaloz"}
          /\ ~ExpectedReported(r) <=>
                r.compensation_status = "Belirgin primer bozukluk yok"

\* pCO2 60 with HCO3 28.5 lies between the acute (26.0 + 2) and the chronic
\* (31.0 - 2) band: the acute expected value is reported, no difference
C28_Witness ==
    /\ pc = "compensation_done"
    /\ V(call).pco2 = 600 /\ V(call).hco3 = 285
    /\ V(ret).compensation_status = "Subakut respiratuvar asidoz"
    /\ V(ret).expected_hco3 = Num(260)
    /\ IsNone(V(ret).expected_pco2)
    /\ IsNone(V(ret).observed_expected_diff)

\* C29: in both modes and for every subset of absent optional fields,
\* missing_params names each missing parameter at most once, and the flag
\* INCOMPLETE_DATA is present iff missing_params is not empty.
C29_MissingParamsOnce ==
    (pc \in {"analyzed", "exported", "reimported"} /\ V(val).is_valid) =>
      LET missing_params == V(out).missing_params
      IN  /\ \A a \in DOMAIN missing_params : \A b \in DOMAIN missing_params :
                missing_params[a] = missing_params[b] => a = b
          /\ Has(V(out).flags, "INCOMPLETE_DATA") <=> Len(missing_params) > 0

RECURSIVE IsSubList(_, _)
\* the elements of short occur in long, in the same order
IsSubList(short, long) ==
    IF Len(short) = 0 THEN TRUE
    ELSE IF Len(long) = 0 THEN FALSE
    ELSE IF Head(short) = Head(long) THEN IsSubList(Tail(short), Tail(long))
    ELSE IsSubList(short, Tail(long))

\* the analysis of the input at hand in quick and in advanced mode: the one
\* the state holds and the one of the other mode
InQuickMode == IF mode = "quick" THEN V(out) ELSE analyze_stewart(V(inp), "quick")[1]

InAdvancedMode ==
    IF mode = "advanced" THEN V(out) ELSE analyze_stewart(V(inp), "advanced")[1]

\* C30: for the same input the disorder_components of the quick analysis
\* are an order-preserving sub-list of those of the advanced analysis; the
\* advanced analysis adds at most "hagma", and only with SIG > 2; the two
\* dominant_disorder values differ only when it does.
C30_QuickIsSubListOfAdvanced ==
    (pc \in {"analyzed", "exported", "reimported"} /\ V(val).is_valid) =>
      LET quick == InQuickMode.disorder_components
          advanced == InAdvancedMode.disorder_components
          added == { advanced[n] : n \in DOMAIN advanced }
                     \ { quick[n] : n \in DOMAIN quick }
      IN  /\ IsSubList(quick, advanced)
          /\ added \subseteq {"hagma"}
          /\ Len(advanced) <= Len(quick) + 1
          /\ added # {} => (~IsNone(InAdvancedMode.sig)
                            /\ V(InAdvancedMode.sig) > SIG_THRESHOLD)
          /\ InQuickMode.dominant_disorder # InAdvancedMode.dominant_disorder
                => added = {"hagma"}

\* an advanced analysis whose SIG alone raises hagma: the quick analysis of
\* the same input has the same components without it
C30_Witness ==
    /\ pc = "analyzed" /\ mode = "advanced" /\ V(val).is_valid
    /\ Has(InAdvancedMode.disorder_components, "hagma")
    /\ ~Has(InQuickMode.disorder_components, "hagma")
    /\ Len(InQuickMode.disorder_components) >= 1
    /\ InQuickMode.dominant_disorder # InAdvancedMode.dominant_disorder

====
